---- MODULE Spec2Model ----
(***************************************************************************)
(* Taccuino: the note store (create / read / update / delete / search /    *)
(* import over a directory of one-file-per-note JSON records) and the      *)
(* full-screen navigator that drives it.                                   *)
(*                                                                         *)
(* The repository holds two implementations of the store:                  *)
(*   "index" : the functions inlined in src/index.js (lines 41-120,        *)
(*             958-1022), ids made by generateId();                        *)
(*   "notes" : the module imported as ./src/notes.js by the other UI       *)
(*             variants (src/unnamed/part_003), ids made by uuidv4().      *)
(* A behaviour runs one of them; impl says which.                          *)
(***************************************************************************)
EXTENDS Integers, Sequences, FiniteSets, TLC

VARIABLES
    impl,   \* which store implementation this run uses: "index" or "notes"
    dir,    \* the notes directory: the record files, in readdirSync order
    now,    \* the wall clock, in ticks of new Date() / Date.now()
    ret,    \* what the last store call did: its name, arguments and outcome
    ui,     \* which full-screen program runs ("none": the store is called directly)
    view,   \* the screen on display
    overlay,\* the message box on top of it, if any
    proc,   \* the process: "running", or how it ended
    event,  \* the user input the last step handled
    screen  \* the blessed screen: the key handlers bound on it, and whether
            \* a text input grabs the keys

storeVars == <<impl, dir, now, ret>>
navVars == <<ui, view, overlay, proc, event, screen>>
vars == <<impl, dir, now, ret, ui, view, overlay, proc, event, screen>>

----------------------------------------------------------------------------
(* Bounds of the model *)

\* the clock stops ticking at MaxTime
MaxTime == 1
\* the directory holds at most MaxNotes record files
MaxNotes == 2
\* Math.random() / uuidv4() draw from NumRand values
NumRand == 2
\* an import file holds at most MaxImport elements
MaxImport == 1

----------------------------------------------------------------------------
(* Text.  A string is a sequence of characters; only the distinctions the  *)
(* code makes are kept: letter case and surrounding whitespace.            *)

Char == {"a", "A", "b", "B", "Y", "E", "S", "y", "e", "s", "!", " "}

\* String.prototype.toLowerCase, per character
LowerChar(c) ==
    CASE c = "A" -> "a" [] c = "B" -> "b" [] c = "U" -> "u"
      [] c = "Y" -> "y" [] c = "E" -> "e" [] c = "S" -> "s" [] OTHER -> c

toLowerCase(s) == [i \in 1..Len(s) |-> LowerChar(s[i])]

\* a mutant of includes: a prefix test
includes_prefixOnly(s, q) ==
    Len(q) <= Len(s) /\ SubSeq(s, 1, Len(q)) = q

\* String.prototype.includes
includes(s, q) ==
    \E i \in 0..(Len(s) - Len(q)) : SubSeq(s, i + 1, i + Len(q)) = q

RECURSIVE trimStart(_)
trimStart(s) == IF s # <<>> /\ Head(s) = " " THEN trimStart(Tail(s)) ELSE s

RECURSIVE trimEnd(_)
trimEnd(s) ==
    IF s # <<>> /\ s[Len(s)] = " " THEN trimEnd(SubSeq(s, 1, Len(s) - 1)) ELSE s

\* String.prototype.trim
trim(s) == trimEnd(trimStart(s))

\* JavaScript truthiness of a string: '' is falsy
Truthy(s) == s # <<>>

----------------------------------------------------------------------------
(* Values *)

\* a call that returns nothing
Undefined == [undefined |-> TRUE]
\* getNoteById's "no such note"
Null == [null |-> TRUE]
\* a boolean return value
Bool(b) == [bool |-> b]
\* no exception was thrown
NoError == ""

\* a key of an object is absent (None) or present with a value (Some)
None == <<>>
Some(x) == <<x>>
Has(opt) == opt # None
Val(opt) == opt[1]

\* !obj.f for a string field: absent, or the empty string
Falsy(opt) == ~Has(opt) \/ ~Truthy(Val(opt))

Titles == { <<"a">>, <<"B">> }
Contents == { <<>>, <<"a", "b">> }
Times == 0..MaxTime
Rand == 0..(NumRand - 1)

\* generateId(): Date.now() in base 36, '-', six random characters
IndexIds == Times \X Rand
\* uuidv4(): the tag -1 stands for "not derived from the clock"
UuidIds == {-1} \X Rand
\* the default title of notes.createNote
Untitled == <<"U", "n", "t", "i", "t", "l", "e", "d">>

Note(id, title, content, created, updated) ==
    [id |-> id, title |-> title, content |-> content,
     created_at |-> created, updated_at |-> updated]

\* a record file: its name without ".json", and the note it holds
File(key, note) == [key |-> key, note |-> note]

Keys(d) == {d[i].key : i \in 1..Len(d)}

IndexOfKey(d, key) == CHOOSE i \in 1..Len(d) : d[i].key = key

\* fs.existsSync(getNoteFilePath(noteId))
existsSync(d, key) == key \in Keys(d)

\* JSON.parse(fs.readFileSync(getNoteFilePath(noteId)))
readFile(d, key) == d[IndexOfKey(d, key)].note

InsertAt(d, pos, f) == SubSeq(d, 1, pos - 1) \o <<f>> \o SubSeq(d, pos, Len(d))

\* fs.writeFileSync(getNoteFilePath(key), JSON.stringify(note)): an existing
\* file keeps its directory slot, a new one takes slot pos (the file system
\* decides where readdir will list it)
writeFileSync(d, key, note, pos) ==
    IF existsSync(d, key)
    THEN [d EXCEPT ![IndexOfKey(d, key)] = File(key, note)]
    ELSE InsertAt(d, pos, File(key, note))

\* fs.unlinkSync(getNoteFilePath(key))
unlinkSync(d, key) == SelectSeq(d, LAMBDA f : f.key # key)


----------------------------------------------------------------------------
(* Reading the store *)

\* a mutant of the comparator: ascending order
compareNotes_ascending(a, b) == a.created_at - b.created_at

\* the comparator getAllNotes hands to Array.prototype.sort:
\* new Date(b.created_at) - new Date(a.created_at); for a parsed value
\* without created_at the difference is NaN, which sort takes as 0
compareNotes(a, b) ==
    IF "created_at" \in DOMAIN a /\ "created_at" \in DOMAIN b
    THEN b.created_at - a.created_at
    ELSE 0

\* Array.prototype.sort is stable: x goes after every element that does not
\* compare greater than it
RECURSIVE insertSorted(_, _)
insertSorted(sorted, x) ==
    IF sorted = <<>> THEN <<x>>
    ELSE IF compareNotes(Head(sorted), x) <= 0
         THEN <<Head(sorted)>> \o insertSorted(Tail(sorted), x)
         ELSE <<x>> \o sorted

RECURSIVE sort(_)
sort(s) ==
    IF s = <<>> THEN <<>>
    ELSE insertSorted(sort(SubSeq(s, 1, Len(s) - 1)), s[Len(s)])

\* file.endsWith('.json'): a record file has no other extension
endsWith_json(f) == "ext" \notin DOMAIN f

\* what JSON.parse makes of the .json files of the directory
parsed(d) ==
    LET files == SelectSeq(d, endsWith_json)
    IN  [i \in 1..Len(files) |-> files[i].note]

\* index.js getAllNotes: parse every .json file, sort by created_at descending
getAllNotes(d) == sort(parsed(d))

\* notes.js getAllNotes: the same listing
notes_getAllNotes(d) == sort(parsed(d))

\* notes.js getNoteById
notes_getNoteById(d, noteId) ==
    IF existsSync(d, noteId) THEN readFile(d, noteId) ELSE Null

\* index.js searchNotes
searchNotes(d, query) ==
    LET lower == toLowerCase(query)
    IN  SelectSeq(getAllNotes(d),
                  LAMBDA n : \/ includes(toLowerCase(n.title), lower)
                             \/ includes(toLowerCase(n.content), lower))

\* notes.js searchNotes
notes_searchNotes(d, query) ==
    SelectSeq(notes_getAllNotes(d),
              LAMBDA n : \/ includes(toLowerCase(n.title), toLowerCase(query))
                         \/ includes(toLowerCase(n.content), toLowerCase(query)))

----------------------------------------------------------------------------
(* The store calls.  Each leaves in ret what the call did: its name, the   *)
(* key of the file it worked on (<<>> when there is no single one), the    *)
(* texts it was given, the exception it threw (NoError for none) and the   *)
(* value it returned.                                                      *)

Ret(op, key, args, thrown, value) ==
    [op |-> op, key |-> key, args |-> args, thrown |-> thrown, value |-> value]

\* the arguments title, content of a call
Args(title, content) == [title |-> title, content |-> content]
\* arguments that had no effect are not kept
NoArgs == [none |-> TRUE]

\* what a clock read may return when the read before it returned t: the
\* same tick, or the next
Later(t) == {u \in Times : t <= u /\ u <= t + 1}

\* where the file system may list a new file
Slots(d) == 1..(Len(d) + 1)

\* time passes between two calls
Tick ==
    /\ now < MaxTime
    /\ now' = now + 1
    /\ UNCHANGED <<impl, dir, ret>>

\* index.js createNote(title, content)
createNote(title, content) ==
    /\ impl = "index"
    /\ \E r \in Rand, pos \in Slots(dir) :
        \E created \in Later(now) :
        \E updated \in Later(created) :
          LET id == <<now, r>>
              note == Note(id, title, content, created, updated)
          IN  /\ existsSync(dir, id) \/ Len(dir) < MaxNotes
              /\ dir' = writeFileSync(dir, id, note, pos)
              /\ now' = updated
              /\ ret' = Ret("createNote", id, Args(title, content), NoError, Undefined)
    /\ UNCHANGED impl

\* a mutant of updateNote: the write stamps created_at as well
updateNote_restampsCreated(noteId, title, content) ==
    /\ impl = "index"
    /\ IF ~existsSync(dir, noteId)
       THEN /\ ret' = Ret("updateNote", noteId, NoArgs, "Note does not exist", Undefined)
            /\ UNCHANGED dir
       ELSE LET note == readFile(dir, noteId)
                written == [note EXCEPT !.title = title, !.content = content,
                                        !.created_at = now, !.updated_at = now]
            IN  /\ dir' = writeFileSync(dir, noteId, written, 1)
                /\ ret' = Ret("updateNote", noteId, Args(title, content), NoError, Undefined)
    /\ UNCHANGED <<impl, now>>

\* index.js updateNote(noteId, { title, content })
updateNote(noteId, title, content) ==
    /\ impl = "index"
    /\ IF ~existsSync(dir, noteId)
       THEN /\ ret' = Ret("updateNote", noteId, NoArgs, "Note does not exist", Undefined)
            /\ UNCHANGED dir
       ELSE LET note == readFile(dir, noteId)
                written == [note EXCEPT !.title = title, !.content = content,
                                        !.updated_at = now]
            IN  /\ dir' = writeFileSync(dir, noteId, written, 1)
                /\ ret' = Ret("updateNote", noteId, Args(title, content), NoError, Undefined)
    /\ UNCHANGED <<impl, now>>

\* a mutant of index.js deleteNote: the directory is emptied
deleteNote_all(noteId) ==
    /\ impl = "index"
    /\ IF existsSync(dir, noteId)
       THEN /\ dir' = <<>>
            /\ ret' = Ret("deleteNote", noteId, NoArgs, NoError, Undefined)
       ELSE /\ ret' = Ret("deleteNote", noteId, NoArgs, "Note not found", Undefined)
            /\ UNCHANGED dir
    /\ UNCHANGED <<impl, now>>

\* index.js deleteNote(noteId)
deleteNote(noteId) ==
    /\ impl = "index"
    /\ IF existsSync(dir, noteId)
       THEN /\ dir' = unlinkSync(dir, noteId)
            /\ ret' = Ret("deleteNote", noteId, NoArgs, NoError, Undefined)
       ELSE /\ ret' = Ret("deleteNote", noteId, NoArgs, "Note not found", Undefined)
            /\ UNCHANGED dir
    /\ UNCHANGED <<impl, now>>

----------------------------------------------------------------------------
(* Bulk import (index.js).  An import file is what JSON.parse makes of it:  *)
(* an array of objects, or something that is not an array.                  *)

ImportIds == {<<0, 0>>, <<MaxTime, 0>>}
\* created_at values a file may carry: an old one, and one the clock has
\* not reached
ImportTimes == {0, MaxTime + 1}

ImportElements ==
    [id         : {None} \cup {Some(i) : i \in ImportIds},
     title      : {None, Some(<<"a">>)},
     content    : {Some(c) : c \in Contents},
     created_at : {None} \cup {Some(t) : t \in ImportTimes}]

RECURSIVE ArraysOf(_, _)
ArraysOf(S, n) ==
    IF n = 0 THEN {<<>>}
    ELSE LET shorter == ArraysOf(S, n - 1)
         IN  shorter \cup {Append(a, x) : a \in {b \in shorter : Len(b) = n - 1}, x \in S}

ImportFiles ==
    {[array |-> TRUE, elements |-> a] : a \in ArraysOf(ImportElements, MaxImport)}
        \cup {[array |-> FALSE, elements |-> <<>>]}

\* the state the forEach of importNotes carries from element to element
ImportState(d, created, updated) ==
    [dir |-> d, countCreated |-> created, countUpdated |-> updated]

\* a mutant of the forEach body: a note that exists is counted as created
importOne_countsCreated(st, noteData, t) ==
    IF Falsy(noteData.id) \/ Falsy(noteData.title) \/ Falsy(noteData.content)
    THEN {st}
    ELSE LET key == Val(noteData.id)
         IN  IF existsSync(st.dir, key)
             THEN LET existingNote == readFile(st.dir, key)
                      written ==
                        [existingNote EXCEPT
                           !.title = Val(noteData.title),
                           !.content = Val(noteData.content),
                           !.created_at = IF Has(noteData.created_at)
                                          THEN Val(noteData.created_at)
                                          ELSE existingNote.created_at,
                           !.updated_at = t]
                  IN  {ImportState(writeFileSync(st.dir, key, written, 1),
                                   st.countCreated + 1, st.countUpdated)}
             ELSE {ImportState(
                       writeFileSync(st.dir, key,
                           Note(key, Val(noteData.title), Val(noteData.content),
                                IF Has(noteData.created_at)
                                THEN Val(noteData.created_at) ELSE t, t), pos),
                       st.countCreated + 1, st.countUpdated)
                   : pos \in Slots(st.dir)}

\* the body of importedNotes.forEach: what one element does to the
\* directory, read at clock value t (the set of outcomes: one for each slot
\* the file system may give a new file)
importOne(st, noteData, t) ==
    IF Falsy(noteData.id) \/ Falsy(noteData.title) \/ Falsy(noteData.content)
    THEN {st}
    ELSE LET key == Val(noteData.id)
         IN  IF existsSync(st.dir, key)
             THEN LET existingNote == readFile(st.dir, key)
                      written ==
                        [existingNote EXCEPT
                           !.title = Val(noteData.title),
                           !.content = Val(noteData.content),
                           !.created_at = IF Has(noteData.created_at)
                                          THEN Val(noteData.created_at)
                                          ELSE existingNote.created_at,
                           !.updated_at = t]
                  IN  {ImportState(writeFileSync(st.dir, key, written, 1),
                                   st.countCreated, st.countUpdated + 1)}
             ELSE {ImportState(
                       writeFileSync(st.dir, key,
                           Note(key, Val(noteData.title), Val(noteData.content),
                                IF Has(noteData.created_at)
                                THEN Val(noteData.created_at) ELSE t, t), pos),
                       st.countCreated + 1, st.countUpdated)
                   : pos \in Slots(st.dir)}

RECURSIVE importAll(_, _, _)
importAll(st, elements, t) ==
    IF elements = <<>> THEN {st}
    ELSE UNION {importAll(next, Tail(elements), t)
                : next \in importOne(st, Head(elements), t)}

\* index.js importNotes(filePath): the whole command
importNotes(file) ==
    /\ impl = "index"
    /\ IF ~file.array
       THEN /\ ret' = Ret("importNotes", <<>>, NoArgs, NoError,
                          [logged |-> "Invalid file format: JSON array expected"])
            /\ UNCHANGED dir
       ELSE \E st \in importAll(ImportState(dir, 0, 0), file.elements, now) :
              /\ Len(st.dir) <= MaxNotes
              /\ dir' = st.dir
              /\ ret' = Ret("importNotes", <<>>, NoArgs, NoError,
                            [created |-> st.countCreated,
                             updated |-> st.countUpdated])
    /\ UNCHANGED <<impl, now>>

----------------------------------------------------------------------------
(* The store of ./src/notes.js *)

\* the objects handed to notes.updateNote: each key is absent or present
UpdateObjects ==
    [id : {None}, title : {Some(t) : t \in Titles},
     content : {Some(c) : c \in Contents}, created_at : {None}]

\* Object.assign(note, updates): every key of updates overwrites the note's
assign(note, updates) ==
    [id         |-> IF Has(updates.id) THEN Val(updates.id) ELSE note.id,
     title      |-> IF Has(updates.title) THEN Val(updates.title) ELSE note.title,
     content    |-> IF Has(updates.content) THEN Val(updates.content)
                    ELSE note.content,
     created_at |-> IF Has(updates.created_at) THEN Val(updates.created_at)
                    ELSE note.created_at,
     updated_at |-> note.updated_at]

\* notes.js createNote(title, content)
notes_createNote(title, content) ==
    /\ impl = "notes"
    /\ Len(dir) < MaxNotes
    /\ \E id \in UuidIds \ Keys(dir), pos \in Slots(dir) :
        \E created \in Later(now) :
        \E updated \in Later(created) :
          LET note == Note(id, IF Truthy(title) THEN title ELSE Untitled,
                           IF Truthy(content) THEN content ELSE <<>>,
                           created, updated)
          IN  /\ dir' = writeFileSync(dir, id, note, pos)
              /\ now' = updated
              /\ ret' = Ret("createNote", id, Args(title, content), NoError, note)
    /\ UNCHANGED impl

\* a mutant of notes.updateNote: a missing note is written instead of
\* reported
notes_updateNote_upsert(noteId, updates) ==
    /\ impl = "notes"
    /\ Len(dir) < MaxNotes \/ existsSync(dir, noteId)
    /\ LET note == IF existsSync(dir, noteId) THEN readFile(dir, noteId)
                   ELSE Note(noteId, <<>>, <<>>, now, now)
           written == [id |-> note.id, title |-> Val(updates.title),
                       content |-> Val(updates.content),
                       created_at |-> note.created_at, updated_at |-> now]
       IN  /\ dir' = writeFileSync(dir, noteId, written, 1)
           /\ ret' = Ret("updateNote", noteId, updates, NoError, written)
    /\ UNCHANGED <<impl, now>>

\* notes.js updateNote(noteId, updates)
notes_updateNote(noteId, updates) ==
    /\ impl = "notes"
    /\ LET note == notes_getNoteById(dir, noteId)
       IN  IF note = Null
           THEN /\ ret' = Ret("updateNote", noteId, NoArgs, "Note not found", Undefined)
                /\ UNCHANGED dir
           ELSE LET written == [assign(note, updates) EXCEPT !.updated_at = now]
                IN  /\ dir' = writeFileSync(dir, noteId, written, 1)
                    /\ ret' = Ret("updateNote", noteId, updates, NoError, written)
    /\ UNCHANGED <<impl, now>>

\* notes.js deleteNote(noteId)
notes_deleteNote(noteId) ==
    /\ impl = "notes"
    /\ IF existsSync(dir, noteId)
       THEN /\ dir' = unlinkSync(dir, noteId)
            /\ ret' = Ret("deleteNote", noteId, NoArgs, NoError, Bool(TRUE))
       ELSE /\ ret' = Ret("deleteNote", noteId, NoArgs, NoError, Bool(FALSE))
            /\ UNCHANGED dir
    /\ UNCHANGED <<impl, now>>

\* notes.js deleteAllNotes()
notes_deleteAllNotes ==
    /\ impl = "notes"
    /\ dir' = <<>>
    /\ ret' = Ret("deleteAllNotes", <<>>, NoArgs, NoError, Undefined)
    /\ UNCHANGED <<impl, now>>

----------------------------------------------------------------------------
(* The store on its own: any caller, any order of calls *)

\* no store call was made
NoCall == Ret("none", <<>>, NoArgs, NoError, Undefined)

\* no program of the navigator runs
NoView == [name |-> "none"]
NoEvent == [handler |-> "none", text |-> None]
NoScreen == [keys |-> <<>>, grabKeys |-> FALSE]
NoUI ==
    /\ screen = NoScreen
    /\ ui = "none"
    /\ view = NoView
    /\ overlay = None
    /\ proc = "running"
    /\ event = NoEvent

Init ==
    /\ impl \in {"index", "notes"}
    /\ dir = <<>>
    /\ now = 0
    /\ ret = NoCall
    /\ NoUI

Next ==
    \/ Tick /\ UNCHANGED navVars
    \/ \E title \in Titles, content \in Contents :
          createNote(title, content) /\ UNCHANGED navVars
    \/ \E noteId \in IndexIds, title \in Titles, content \in Contents :
          updateNote(noteId, title, content) /\ UNCHANGED navVars
    \/ \E noteId \in IndexIds : deleteNote(noteId) /\ UNCHANGED navVars
    \/ \E file \in ImportFiles : importNotes(file) /\ UNCHANGED navVars
    \/ \E title \in Titles \cup {<<>>}, content \in Contents :
          notes_createNote(title, content) /\ UNCHANGED navVars
    \/ \E noteId \in UuidIds, updates \in UpdateObjects :
          notes_updateNote(noteId, updates) /\ UNCHANGED navVars
    \/ \E noteId \in UuidIds : notes_deleteNote(noteId) /\ UNCHANGED navVars
    \/ notes_deleteAllNotes /\ UNCHANGED navVars

Spec == Init /\ [][Next]_vars

----------------------------------------------------------------------------
(* Searching a store.  The directories are those a store holds after notes *)
(* with these titles and contents were created or imported; each call of   *)
(* searchNotes leaves its result in ret.                                   *)

SearchTitles == { <<"a">>, <<"B">>, <<"a", "B">>, <<"b", "A">> }
SearchContents == { <<>>, <<"a">>, <<"A", "b">>, <<"b", " ", "a">> }
Queries == { <<>>, <<"a">>, <<"A">>, <<"b">>, <<"a", "b">>, <<"A", "B">>,
             <<"B", "a">>, <<" ">> }

SearchNotes ==
    {[title |-> t, content |-> c, created_at |-> at]
        : t \in SearchTitles, c \in SearchContents, at \in Times}

\* the directory whose i-th file holds the i-th of the given notes
SearchDir(ns) ==
    [i \in 1..Len(ns) |->
        LET key == <<IF impl = "index" THEN 0 ELSE -1, i>>
        IN  File(key, Note(key, ns[i].title, ns[i].content,
                           ns[i].created_at, ns[i].created_at))]

SearchInit ==
    /\ impl \in {"index", "notes"}
    /\ now = MaxTime
    /\ ret = NoCall
    /\ \E ns \in ArraysOf(SearchNotes, MaxNotes) : dir = SearchDir(ns)
    /\ NoUI

\* a call of index.js searchNotes(query)
callSearchNotes(query) ==
    /\ impl = "index"
    /\ ret' = Ret("searchNotes", <<>>, [query |-> query], NoError,
                  [results |-> searchNotes(dir, query)])
    /\ UNCHANGED <<impl, dir, now>>

\* a call of notes.js searchNotes(query)
notes_callSearchNotes(query) ==
    /\ impl = "notes"
    /\ ret' = Ret("searchNotes", <<>>, [query |-> query], NoError,
                  [results |-> notes_searchNotes(dir, query)])
    /\ UNCHANGED <<impl, dir, now>>

SearchNext ==
    \/ \E query \in Queries : callSearchNotes(query) /\ UNCHANGED navVars
    \/ \E query \in Queries : notes_callSearchNotes(query) /\ UNCHANGED navVars

SearchSpec == SearchInit /\ [][SearchNext]_vars

----------------------------------------------------------------------------
(* Export and import as commands (index.js).  The store is one that earlier *)
(* creates, updates and imports left behind; each command leaves in ret the *)
(* file it wrote or read.                                                   *)

\* an array handed to importNotes holds at most MaxImported elements
MaxImported == 2

\* the text of a file that JSON.parse rejects
Corrupt == [corrupt |-> TRUE]

SyntaxError == "SyntaxError: Unexpected end of JSON input"

\* JSON.parse(JSON.stringify(all)): every key of every note is present
stringify(all) ==
    [array |-> TRUE,
     elements |->
        [i \in 1..Len(all) |->
            [id |-> Some(all[i].id), title |-> Some(all[i].title),
             content |-> Some(all[i].content),
             created_at |-> Some(all[i].created_at),
             updated_at |-> Some(all[i].updated_at)]]]

\* index.js exportNotes(filePath)
exportNotes ==
    /\ impl = "index"
    /\ ret.op = "none"
    /\ ret' = Ret("exportNotes", <<>>, NoArgs, NoError,
                  [file |-> stringify(getAllNotes(dir))])
    /\ UNCHANGED <<impl, dir, now>>

\* the notes a store holds before the command runs
StoredNotes ==
    {Note(id, <<"B">>, c, at, at) : id \in ImportIds, c \in Contents, at \in Times}

\* the directory holding the given notes, each under its id
StoredDir(ns) == [i \in 1..Len(ns) |-> File(ns[i].id, ns[i])]

\* the objects of an import file, and null
ImportRecords ==
    [id         : {Some(i) : i \in ImportIds},
     title      : {None, Some(<<"a">>)},
     content    : {Some(c) : c \in Contents},
     created_at : {None, Some(MaxTime + 1)}]

ImportedFiles ==
    {[array |-> TRUE, elements |-> a]
        : a \in ArraysOf(ImportRecords \cup {Null}, MaxImported)}
        \cup {[array |-> FALSE, elements |-> <<>>], Corrupt}

\* the test of the forEach body: an element without id, title or content
\* is skipped with a console.warn
Skipped(element) ==
    Falsy(element.id) \/ Falsy(element.title) \/ Falsy(element.content)

\* the elements the forEach gets through: reading noteData.id of null
\* throws a TypeError, which leaves the forEach and lands in the catch of
\* importNotes
BeforeNull(elements) ==
    IF \E i \in 1..Len(elements) : elements[i] = Null
    THEN SubSeq(elements, 1,
                (CHOOSE i \in 1..Len(elements) :
                    /\ elements[i] = Null
                    /\ \A j \in 1..(i - 1) : elements[j] # Null) - 1)
    ELSE elements

\* a mutant of importNotes: a parsed value that is no array is taken as an
\* array without elements
runImportNotes_noArrayTest(file, d) ==
    /\ impl = "index"
    /\ IF file = Corrupt
       THEN /\ ret' = Ret("importNotes", <<>>, [file |-> file, into |-> d],
                          NoError, [logged |-> SyntaxError])
            /\ dir' = d
       ELSE LET done == BeforeNull(file.elements)
            IN  \E st \in importAll(ImportState(d, 0, 0), done, now) :
                  /\ dir' = st.dir
                  /\ ret' = Ret("importNotes", <<>>, [file |-> file, into |-> d],
                                NoError,
                                IF done = file.elements
                                THEN [created |-> st.countCreated,
                                      updated |-> st.countUpdated,
                                      warned |-> Len(SelectSeq(done, Skipped))]
                                ELSE [logged |-> "Cannot read properties of null"])
    /\ UNCHANGED <<impl, now>>

\* importNotes(filePath) run on the directory d, file being the text of the
\* file, or what JSON.parse made of it; what is thrown inside the try is
\* logged by its catch
runImportNotes(file, d) ==
    /\ impl = "index"
    /\ IF file = Corrupt
       THEN /\ ret' = Ret("importNotes", <<>>, [file |-> file, into |-> d],
                          NoError, [logged |-> SyntaxError])
            /\ dir' = d
       ELSE IF ~file.array
       THEN /\ ret' = Ret("importNotes", <<>>, [file |-> file, into |-> d],
                          NoError,
                          [logged |-> "Invalid file format: JSON array expected"])
            /\ dir' = d
       ELSE LET done == BeforeNull(file.elements)
            IN  \E st \in importAll(ImportState(d, 0, 0), done, now) :
                  /\ dir' = st.dir
                  /\ ret' = Ret("importNotes", <<>>, [file |-> file, into |-> d],
                                NoError,
                                IF done = file.elements
                                THEN [created |-> st.countCreated,
                                      updated |-> st.countUpdated,
                                      warned |-> Len(SelectSeq(done, Skipped))]
                                ELSE [logged |-> "Cannot read properties of null"])
    /\ UNCHANGED <<impl, now>>

\* `taccuino import <file>` on the store
callImportNotes ==
    /\ ret.op = "none"
    /\ \E file \in ImportedFiles : runImportNotes(file, dir)

\* the file just exported is imported where the notes directory is empty
importExported ==
    /\ ret.op = "exportNotes"
    /\ runImportNotes(ret.value.file, <<>>)

ImportInit ==
    /\ impl = "index"
    /\ now = MaxTime
    /\ ret = NoCall
    /\ \E ns \in ArraysOf(StoredNotes, MaxNotes) :
          /\ \A i, j \in 1..Len(ns) : ns[i].id = ns[j].id => i = j
          /\ dir = StoredDir(ns)
    /\ NoUI

ImportNext ==
    \/ exportNotes /\ UNCHANGED navVars
    \/ callImportNotes /\ UNCHANGED navVars
    \/ importExported /\ UNCHANGED navVars

ImportSpec == ImportInit /\ [][ImportNext]_vars

----------------------------------------------------------------------------
(* Listing a notes directory in which a record file may not hold JSON: a   *)
(* write cut short, or a file edited by hand.  Each call of getAllNotes     *)
(* leaves its result, or what it threw, in ret.                             *)

\* a file of the directory whose name does not end in .json
NotJson == [ext |-> "txt"]

\* the text exportNotes writes when the store is empty: a .json file holding
\* it is in the directory after `export <notes directory>/backup.json`
ExportedArray == stringify(<<>>)

ListedNotes ==
    {[title |-> t, content |-> c, created_at |-> at]
        : t \in Titles, c \in Contents, at \in Times}
        \cup {Corrupt, NotJson, ExportedArray}

\* the directory whose i-th file holds the i-th of the given texts
ListedDir(ns) ==
    [i \in 1..Len(ns) |->
        LET key == <<IF impl = "index" THEN 0 ELSE -1, i>>
        IN  IF ns[i] = NotJson
            THEN [key |-> key, note |-> Undefined, ext |-> NotJson.ext]
            ELSE File(key, IF ns[i] \in {Corrupt, ExportedArray} THEN ns[i]
                           ELSE Note(key, ns[i].title, ns[i].content,
                                     ns[i].created_at, ns[i].created_at))]

ListInit ==
    /\ impl \in {"index", "notes"}
    /\ now = MaxTime
    /\ ret = NoCall
    /\ \E ns \in ArraysOf(ListedNotes, MaxNotes) : dir = ListedDir(ns)
    /\ NoUI

\* JSON.parse inside files.forEach accepts every .json file of the directory
parses(d) == \A i \in 1..Len(d) : endsWith_json(d[i]) => d[i].note # Corrupt

\* a call of index.js getAllNotes(): the SyntaxError of JSON.parse leaves
\* the forEach and the function
callGetAllNotes ==
    /\ impl = "index"
    /\ ret' = IF parses(dir)
              THEN Ret("getAllNotes", <<>>, NoArgs, NoError,
                       [notes |-> getAllNotes(dir)])
              ELSE Ret("getAllNotes", <<>>, NoArgs, SyntaxError, Undefined)
    /\ UNCHANGED <<impl, dir, now>>

\* a call of notes.js getAllNotes()
notes_callGetAllNotes ==
    /\ impl = "notes"
    /\ ret' = IF parses(dir)
              THEN Ret("getAllNotes", <<>>, NoArgs, NoError,
                       [notes |-> notes_getAllNotes(dir)])
              ELSE Ret("getAllNotes", <<>>, NoArgs, SyntaxError, Undefined)
    /\ UNCHANGED <<impl, dir, now>>

TypeError == "TypeError: Cannot read properties of undefined (reading 'slice')"

\* index.js showNoteList up to noteList.setItems(items): getAllNotes in try,
\* then all.map reads note.title and note.created_at.slice(0, 10) of every
\* element outside the try
callShowNoteList ==
    /\ impl = "index"
    /\ ret' = IF ~parses(dir)
              THEN Ret("showNoteList", <<>>, NoArgs, NoError,
                       [error |-> "Error reading notes: "])
              ELSE IF \E i \in 1..Len(parsed(dir)) :
                          "created_at" \notin DOMAIN parsed(dir)[i]
              THEN Ret("showNoteList", <<>>, NoArgs, TypeError, Undefined)
              ELSE Ret("showNoteList", <<>>, NoArgs, NoError,
                       [notes |-> getAllNotes(dir)])
    /\ UNCHANGED <<impl, dir, now>>

ListNext ==
    \/ callGetAllNotes /\ UNCHANGED navVars
    \/ callShowNoteList /\ UNCHANGED navVars
    \/ notes_callGetAllNotes /\ UNCHANGED navVars

ListSpec == ListInit /\ [][ListNext]_vars

----------------------------------------------------------------------------
(* Writes as the file system sees them.  fs.writeFileSync opens the file   *)
(* with flag 'w', which creates or truncates it, and then writes the text; *)
(* the process can be killed between the two.  A pending write is kept in  *)
(* ret.value: the record to be written and the record the file held.       *)

\* openSync(path, 'w'): the file exists and holds no text, which JSON.parse
\* rejects
open_w(d, key, pos) == writeFileSync(d, key, Corrupt, pos)

Pending == "writing" \in DOMAIN ret.value

CrashNotes ==
    {[title |-> <<"a">>, content |-> c, created_at |-> 0] : c \in Contents}

CrashInit ==
    /\ impl \in {"index", "notes"}
    /\ now = MaxTime
    /\ ret = NoCall
    /\ \E ns \in ArraysOf(CrashNotes, MaxNotes) : dir = SearchDir(ns)
    /\ ui = "none"
    /\ view = NoView
    /\ overlay = None
    /\ proc = "running"
    /\ event = NoEvent
    /\ screen = NoScreen

\* index.js updateNote up to the open of fs.writeFileSync
updateNote_open(noteId, title, content) ==
    /\ impl = "index"
    /\ proc = "running"
    /\ ~Pending
    /\ IF ~existsSync(dir, noteId)
       THEN /\ ret' = Ret("updateNote", noteId, NoArgs, "Note does not exist", Undefined)
            /\ UNCHANGED dir
       ELSE LET note == readFile(dir, noteId)
                written == [note EXCEPT !.title = title, !.content = content,
                                        !.updated_at = now]
            IN  /\ dir' = open_w(dir, noteId, 1)
                /\ ret' = Ret("updateNote", noteId, Args(title, content), NoError,
                              [writing |-> written, old |-> Some(note)])
    /\ UNCHANGED <<impl, now>>

\* notes.js updateNote up to the open of fs.writeFileSync
notes_updateNote_open(noteId, updates) ==
    /\ impl = "notes"
    /\ proc = "running"
    /\ ~Pending
    /\ LET note == notes_getNoteById(dir, noteId)
       IN  IF note = Null
           THEN /\ ret' = Ret("updateNote", noteId, NoArgs, "Note not found", Undefined)
                /\ UNCHANGED dir
           ELSE LET written == [assign(note, updates) EXCEPT !.updated_at = now]
                IN  /\ dir' = open_w(dir, noteId, 1)
                    /\ ret' = Ret("updateNote", noteId, updates, NoError,
                                  [writing |-> written, old |-> Some(note)])
    /\ UNCHANGED <<impl, now>>

\* createNote of either store up to the open of fs.writeFileSync
createNote_open(title, content) ==
    /\ proc = "running"
    /\ ~Pending
    /\ Len(dir) < MaxNotes
    /\ \E id \in IF impl = "index" THEN {now} \X Rand ELSE UuidIds, pos \in Slots(dir) :
          /\ ~existsSync(dir, id)
          /\ dir' = open_w(dir, id, pos)
          /\ ret' = Ret("createNote", id, Args(title, content), NoError,
                        [writing |-> Note(id, title, content, now, now),
                         old |-> None])
    /\ UNCHANGED <<impl, now>>

\* the write and close that end fs.writeFileSync
writeFileSync_write ==
    /\ proc = "running"
    /\ Pending
    /\ dir' = writeFileSync(dir, ret.key, ret.value.writing, 1)
    /\ ret' = [ret EXCEPT !.value = [written |-> ret.value.writing]]
    /\ UNCHANGED <<impl, now>>

\* the process is killed, or the machine loses power
crash ==
    /\ proc = "running"
    /\ proc' = "killed"
    /\ UNCHANGED <<impl, dir, now, ret>>

CrashNext ==
    \/ \E noteId \in {0} \X (1..MaxNotes), title \in Titles, content \in Contents :
          updateNote_open(noteId, title, content) /\ UNCHANGED <<ui, view, overlay, proc, event, screen>>
    \/ \E noteId \in {-1} \X (1..MaxNotes), updates \in UpdateObjects :
          notes_updateNote_open(noteId, updates) /\ UNCHANGED <<ui, view, overlay, proc, event, screen>>
    \/ \E title \in Titles, content \in Contents :
          createNote_open(title, content) /\ UNCHANGED <<ui, view, overlay, proc, event, screen>>
    \/ writeFileSync_write /\ UNCHANGED <<ui, view, overlay, proc, event, screen>>
    \/ crash /\ UNCHANGED <<ui, view, overlay, event, screen>>

CrashSpec == CrashInit /\ [][CrashNext]_vars

----------------------------------------------------------------------------
(* The navigator.  The repository holds four full-screen programs:         *)
(*   "index"        : src/index.js 1-1022, on the store inlined there;     *)
(*   "index_1025"   : src/index.js 1025-1449, on ./src/notes.js;           *)
(*   "part_002"     : src/unnamed/part_002 1-726, on ./src/notes.js;       *)
(*   "part_002_727" : src/unnamed/part_002 727-937, on ./src/notes.js.     *)
(* A behaviour runs one of them; ui says which.  Each action is one        *)
(* handler of a key, a form or a prompt, run to its end; it leaves in      *)
(* event the input it handled and in ret the store call it made (NoCall    *)
(* when it made none).  A key reaches the handlers of the screen on        *)
(* display, and a message box holds the keys until it is gone.             *)

Programs == {"index", "index_1025", "part_002", "part_002_727"}

\* the store a program is written against
StoreOf(p) == IF p = "index" THEN "index" ELSE "notes"

\* what an fs call does: it succeeds, or it throws
IO == {"ok", "EACCES"}
IOError == "EACCES: permission denied"

\* the store call op throws IOError out of its first fs call
fsThrows(op, key, args) ==
    /\ ret' = Ret(op, key, args, IOError, Undefined)
    /\ UNCHANGED <<impl, dir, now>>

\* a handler that calls no store function
noStoreCall ==
    /\ ret' = NoCall
    /\ UNCHANGED <<impl, dir, now>>

\* the texts typed into the forms and prompts
YES == <<"Y", "E", "S">>
ConfirmTexts ==
    { YES, <<" ", "Y", "E", "S", " ">>, <<"y", "e", "s">>, <<>>,
      <<"Y", "E", "S", "!">> }
FormTitles == { <<>>, <<" ">>, <<"a">>, <<" ", "B", " ">> }
FormContents == { <<>>, <<"a", " ", "b">> }
FormQueries == { <<>>, <<" ">>, <<"b">>, <<"A">> }

\* what a prompt hands to its callback: null when cancelled, else the text
PromptValues(texts) == {None} \cup {Some(t) : t \in texts}

\* the screens
List(notes, ready) == [name |-> "List", notes |-> notes, ready |-> ready]
Viewing(note) == [name |-> "Viewing", note |-> note]
Creating(title) == [name |-> "Creating", title |-> title]
Editing(note) == [name |-> "Editing", note |-> note]
ConfirmingDelete(noteId, notes) ==
    [name |-> "ConfirmingDelete", noteId |-> noteId, notes |-> notes]
Searching == [name |-> "Searching"]
SearchResults(results) == [name |-> "SearchResults", results |-> results]

Event(handler, text) == [handler |-> handler, text |-> text]

\* blessed.message(...).display(text, time, callback)
Message(label, text, callback) ==
    Some([label |-> label, text |-> text, callback |-> callback])

\* showMessage(screen, text, callback)
showMessage(text, callback) == Message("Info", <<text>>, callback)

\* showError(screen, errorText, callback); errorText is prefix + error.message
showError(prefix, message, callback) ==
    Message("Error", <<prefix, message>>, callback)

\* the handlers of a screen of the programs ps run
OnScreen(ps, name) ==
    /\ ui \in ps
    /\ proc = "running"
    /\ overlay = None
    /\ view.name = name

\* the keys bound by the list on display
OnList(ps) == OnScreen(ps, "List") /\ view.ready

\* an exception nobody catches: blessed's uncaughtException handler
\* destroys the screen and exits with code 1
uncaught ==
    /\ proc' = "exit 1"
    /\ overlay' = None
    /\ UNCHANGED view

\* index.js showNoteList(screen, mainArea); io is what getAllNotes' fs calls do.
\* When getAllNotes throws, the function returns before its own key
\* bindings; a handler can only call it after a list was shown, whose
\* screen.key bindings are never removed, so the keys stay bound.
showNoteList(io) ==
    IF io = "ok"
    THEN /\ view' = List(getAllNotes(dir'), TRUE)
         /\ overlay' = None
    ELSE /\ view' = List(<<>>, TRUE)
         /\ overlay' = showError("Error reading notes: ", IOError, "all = []")

\* fullScreenListUI(screen) of the programs on notes.js; getAllNotes is
\* called outside any try
fullScreenListUI(io) ==
    IF io = "ok"
    THEN /\ view' = List(notes_getAllNotes(dir'), TRUE)
         /\ overlay' = None
         /\ UNCHANGED proc
    ELSE uncaught

\* entering the list of whichever program runs
enterList(io) ==
    IF ui = "index" THEN showNoteList(io) /\ UNCHANGED proc
    ELSE fullScreenListUI(io)

\* time passes between two inputs
NavTick ==
    /\ ui \in Programs
    /\ proc = "running"
    /\ now < MaxTime
    /\ now' = now + 1
    /\ ret' = NoCall
    /\ event' = Event("tick", None)
    /\ UNCHANGED <<impl, dir, ui, view, overlay, proc>>

\* screen.key(['q'], () => process.exit(0)) of the list
key_q ==
    /\ OnList(Programs)
    /\ proc' = "exit 0"
    /\ event' = Event("q", None)
    /\ noStoreCall
    /\ UNCHANGED <<ui, view, overlay>>

\* screen.key(['n'], ...) of the list: the create form, or the title prompt
key_n ==
    /\ OnList(Programs)
    /\ view' = Creating(None)
    /\ event' = Event("n", None)
    /\ noStoreCall
    /\ UNCHANGED <<ui, overlay, proc>>

\* screen.key(['s'], ...) of the list
key_s ==
    /\ OnList({"index", "part_002"})
    /\ view' = Searching
    /\ event' = Event("s", None)
    /\ noStoreCall
    /\ UNCHANGED <<ui, overlay, proc>>

\* screen.key(['d'], ...) of the list, the selection being on item index
key_d(index) ==
    /\ OnList(Programs)
    /\ index \in 1..Len(view.notes)
    /\ view' = ConfirmingDelete(view.notes[index].id, view.notes)
    /\ event' = Event("d", None)
    /\ noStoreCall
    /\ UNCHANGED <<ui, overlay, proc>>

\* noteList.on('select', ...): Enter on item index opens the note
list_select(index) ==
    /\ OnList(Programs)
    /\ index \in 1..Len(view.notes)
    /\ view' = Viewing(view.notes[index])
    /\ event' = Event("select", None)
    /\ noStoreCall
    /\ UNCHANGED <<ui, overlay, proc>>

\* box.key(['e'], ...) of the note view
key_e ==
    /\ OnScreen({"index", "index_1025", "part_002"}, "Viewing")
    /\ view' = Editing(view.note)
    /\ event' = Event("e", None)
    /\ noStoreCall
    /\ UNCHANGED <<ui, overlay, proc>>

\* Esc, or the Cancel button, of a form, a view or a result list: back to
\* the list
key_escape(io) ==
    /\ ui \in Programs
    /\ proc = "running"
    /\ overlay = None
    /\ \/ view.name \in {"Viewing", "Editing", "Searching", "SearchResults"}
       \/ view.name = "Creating" /\ ui # "part_002_727"
       \/ view.name = "ConfirmingDelete" /\ ui \in {"index", "part_002"}
    /\ event' = Event("escape", None)
    /\ noStoreCall
    /\ enterList(io)
    /\ UNCHANGED ui

\* the message box goes away (a key, or its time is up) and its callback runs
message_done(io) ==
    /\ ui \in Programs
    /\ proc = "running"
    /\ Has(overlay)
    /\ event' = Event("message_done", None)
    /\ noStoreCall
    /\ IF Val(overlay).callback \in {"showNoteList", "fullScreenListUI"}
       THEN enterList(io)
       ELSE /\ io = "ok"
            /\ overlay' = None
            /\ UNCHANGED <<view, proc>>
    /\ UNCHANGED ui

\* index.js showCreateNoteForm: form.on('submit')
showCreateNoteForm_submit(data, io) ==
    /\ OnScreen({"index"}, "Creating")
    /\ event' = Event("showCreateNoteForm.submit", Some(data.title))
    /\ LET title == trim(data.title)
           content == trim(data.content)
       IN  IF ~Truthy(title)
           THEN /\ overlay' = showMessage("Title is required!", "titleInput.focus")
                /\ noStoreCall
           ELSE \/ /\ io = "ok"
                   /\ createNote(title, content)
                   /\ overlay' = showMessage("Note created successfully!",
                                             "showNoteList")
                \/ /\ io # "ok"
                   /\ fsThrows("createNote", <<>>, Args(title, content))
                   /\ overlay' = showError("Error creating note: ", IOError,
                                           "showNoteList")
    /\ UNCHANGED <<ui, view, proc>>

\* index.js showEditNoteForm: form.on('submit')
showEditNoteForm_submit(data, io) ==
    /\ OnScreen({"index"}, "Editing")
    /\ event' = Event("showEditNoteForm.submit", Some(data.title))
    /\ LET updatedTitle == trim(data.title)
           updatedContent == trim(data.content)
       IN  IF ~Truthy(updatedTitle)
           THEN /\ overlay' = showMessage("Title is required!", "titleInput.focus")
                /\ noStoreCall
           ELSE /\ \/ /\ io = "ok"
                      /\ updateNote(view.note.id, updatedTitle, updatedContent)
                   \/ /\ io # "ok"
                      /\ fsThrows("updateNote", view.note.id,
                                  Args(updatedTitle, updatedContent))
                /\ overlay' =
                     IF ret'.thrown = NoError
                     THEN showMessage("Note updated successfully!", "showNoteList")
                     ELSE showError("Error updating note: ", ret'.thrown,
                                    "showNoteList")
    /\ UNCHANGED <<ui, view, proc>>

\* index.js confirmDeleteNoteUI: form.on('submit')
confirmDeleteNoteUI_submit(data, io) ==
    /\ OnScreen({"index"}, "ConfirmingDelete")
    /\ event' = Event("confirmDeleteNoteUI.submit", Some(data.confirm))
    /\ IF trim(data.confirm) = YES
       THEN /\ \/ /\ io = "ok"
                  /\ deleteNote(view.noteId)
               \/ /\ io # "ok"
                  /\ fsThrows("deleteNote", view.noteId, NoArgs)
            /\ overlay' =
                 IF ret'.thrown = NoError
                 THEN showMessage("Note deleted.", "showNoteList")
                 ELSE showError("Error deleting note: ", ret'.thrown,
                                "showNoteList")
            /\ UNCHANGED view
       ELSE /\ noStoreCall
            /\ showNoteList(io)
    /\ UNCHANGED <<ui, proc>>

\* a mutant of showSearchPrompt's submit handler: the results screen is
\* built without looking at results.length
showSearchPrompt_submit_noEmptyTest(data, io) ==
    /\ OnScreen({"index"}, "Searching")
    /\ event' = Event("showSearchPrompt.submit", Some(data.query))
    /\ LET query == trim(data.query)
       IN  IF ~Truthy(query)
           THEN /\ noStoreCall
                /\ showNoteList(io)
           ELSE \/ /\ io = "ok"
                   /\ callSearchNotes(query)
                   /\ view' = SearchResults(ret'.value.results)
                   /\ UNCHANGED overlay
                \/ /\ io # "ok"
                   /\ fsThrows("searchNotes", <<>>, [query |-> query])
                   /\ overlay' = showError("Error searching notes: ", IOError,
                                           "showNoteList")
                   /\ UNCHANGED view
    /\ UNCHANGED <<ui, proc>>

\* index.js showSearchPrompt: form.on('submit')
showSearchPrompt_submit(data, io) ==
    /\ OnScreen({"index"}, "Searching")
    /\ event' = Event("showSearchPrompt.submit", Some(data.query))
    /\ LET query == trim(data.query)
       IN  IF ~Truthy(query)
           THEN /\ noStoreCall
                /\ showNoteList(io)
           ELSE \/ /\ io = "ok"
                   /\ callSearchNotes(query)
                   /\ IF ret'.value.results = <<>>
                      THEN /\ overlay' = showMessage("No matching notes found.",
                                                     "showNoteList")
                           /\ UNCHANGED view
                      ELSE /\ view' = SearchResults(ret'.value.results)
                           /\ UNCHANGED overlay
                \/ /\ io # "ok"
                   /\ fsThrows("searchNotes", <<>>, [query |-> query])
                   /\ overlay' = showError("Error searching notes: ", IOError,
                                           "showNoteList")
                   /\ UNCHANGED view
    /\ UNCHANGED <<ui, proc>>

\* the object { title, content } handed to notes.updateNote
Updates(title, content) ==
    [id |-> None, title |-> Some(title), content |-> Some(content),
     created_at |-> None]

\* a call of a notes.js function from a handler without try: it returns,
\* or what it throws ends the process
unguarded ==
    IF ret'.thrown = NoError THEN UNCHANGED proc ELSE proc' = "exit 1"

\* createNoteUI: form.on('submit') (index.js 1025-1449, part_002 1-726)
createNoteUI_submit(data, io) ==
    /\ OnScreen({"index_1025", "part_002"}, "Creating")
    /\ event' = Event("createNoteUI.submit", Some(data.title))
    /\ LET title == trim(data.title)
           content == trim(data.content)
       IN  IF ~Truthy(title)
           THEN /\ overlay' = showMessage("Title is required!", "titleInput.focus")
                /\ noStoreCall
                /\ UNCHANGED proc
           ELSE /\ \/ /\ io = "ok"
                      /\ notes_createNote(title, content)
                   \/ /\ io # "ok"
                      /\ fsThrows("createNote", <<>>, Args(title, content))
                /\ unguarded
                /\ overlay' =
                     IF ret'.thrown = NoError
                     THEN showMessage("Note created successfully!",
                                      "fullScreenListUI")
                     ELSE None
    /\ UNCHANGED <<ui, view>>

\* editNoteUI: form.on('submit') (index.js 1025-1449, part_002 1-726)
editNoteUI_submit(data, io) ==
    /\ OnScreen({"index_1025", "part_002"}, "Editing")
    /\ event' = Event("editNoteUI.submit", Some(data.title))
    /\ LET updatedTitle == trim(data.title)
           updatedContent == trim(data.content)
       IN  IF ~Truthy(updatedTitle)
           THEN /\ overlay' = showMessage("Title is required!", "titleInput.focus")
                /\ noStoreCall
                /\ UNCHANGED proc
           ELSE /\ \/ /\ io = "ok"
                      /\ notes_updateNote(view.note.id,
                                          Updates(updatedTitle, updatedContent))
                   \/ /\ io # "ok"
                      /\ fsThrows("updateNote", view.note.id,
                                  Updates(updatedTitle, updatedContent))
                /\ unguarded
                /\ overlay' =
                     IF ret'.thrown = NoError
                     THEN showMessage("Note updated successfully!",
                                      "fullScreenListUI")
                     ELSE None
    /\ UNCHANGED <<ui, view>>

\* what follows a call of notes.deleteNote in a handler that then redraws
\* the list: the redraw when the call returned, the end of the process
\* when it threw
thenList(io) ==
    IF ret'.thrown = NoError THEN fullScreenListUI(io) ELSE uncaught

\* index.js 1025-1449 confirmDeleteNote: the callback of prompt.input
confirmDeleteNote_input(value, io, io2) ==
    /\ OnScreen({"index_1025"}, "ConfirmingDelete")
    /\ event' = Event("confirmDeleteNote.input", value)
    /\ IF value = Some(YES)
       THEN /\ \/ /\ io = "ok"
                  /\ notes_deleteNote(view.noteId)
               \/ /\ io # "ok"
                  /\ fsThrows("deleteNote", view.noteId, NoArgs)
            /\ thenList(io2)
       ELSE /\ io = "ok"
            /\ noStoreCall
            /\ fullScreenListUI(io2)
    /\ UNCHANGED ui

\* part_002 1-726 confirmDeleteNoteUI: form.on('submit')
part_002_confirmDeleteNoteUI_submit(data, io, io2) ==
    /\ OnScreen({"part_002"}, "ConfirmingDelete")
    /\ event' = Event("confirmDeleteNoteUI.submit", Some(data.confirm))
    /\ IF trim(data.confirm) = YES
       THEN /\ \/ /\ io = "ok"
                  /\ notes_deleteNote(view.noteId)
               \/ /\ io # "ok"
                  /\ fsThrows("deleteNote", view.noteId, NoArgs)
            /\ thenList(io2)
       ELSE /\ io = "ok"
            /\ noStoreCall
            /\ fullScreenListUI(io2)
    /\ UNCHANGED ui

\* part_002 727-937 fullScreenListUI, key d: the callback of prompt.input
\* (the prompt lies over the list, which is redrawn only after a delete)
part_002_727_delete_input(value, io, io2) ==
    /\ OnScreen({"part_002_727"}, "ConfirmingDelete")
    /\ event' = Event("fullScreenListUI.d.input", value)
    /\ IF value = Some(YES)
       THEN /\ \/ /\ io = "ok"
                  /\ notes_deleteNote(view.noteId)
               \/ /\ io # "ok"
                  /\ fsThrows("deleteNote", view.noteId, NoArgs)
            /\ thenList(io2)
       ELSE /\ io = "ok" /\ io2 = "ok"
            /\ noStoreCall
            /\ view' = List(view.notes, TRUE)
            /\ UNCHANGED <<overlay, proc>>
    /\ UNCHANGED ui

\* part_002 727-937 createNoteUI: the callback of titlePrompt.input
part_002_727_createNoteUI_title(title, io) ==
    /\ OnScreen({"part_002_727"}, "Creating")
    /\ view.title = None
    /\ event' = Event("createNoteUI.title", title)
    /\ noStoreCall
    /\ IF title = None
       THEN fullScreenListUI(io)
       ELSE /\ io = "ok"
            /\ view' = Creating(title)
            /\ UNCHANGED <<overlay, proc>>
    /\ UNCHANGED ui

\* part_002 727-937 createNoteUI: the callback of contentPrompt.input
part_002_727_createNoteUI_content(content, io, io2) ==
    /\ OnScreen({"part_002_727"}, "Creating")
    /\ view.title # None
    /\ event' = Event("createNoteUI.content", content)
    /\ IF content = None
       THEN /\ io = "ok"
            /\ noStoreCall
            /\ fullScreenListUI(io2)
       ELSE /\ \/ /\ io = "ok"
                  /\ notes_createNote(Val(view.title), Val(content))
               \/ /\ io # "ok"
                  /\ fsThrows("createNote", <<>>,
                              Args(Val(view.title), Val(content)))
            /\ thenList(io2)
    /\ UNCHANGED ui

\* part_002 1-726 searchNotesUI: the callback of prompt.input
searchNotesUI_input(query, io) ==
    /\ OnScreen({"part_002"}, "Searching")
    /\ event' = Event("searchNotesUI.input", query)
    /\ IF Falsy(query)
       THEN /\ noStoreCall
            /\ fullScreenListUI(io)
       ELSE \/ /\ io = "ok"
               /\ notes_callSearchNotes(Val(query))
               /\ IF ret'.value.results = <<>>
                  THEN /\ overlay' = showMessage("No matching notes found.",
                                                 "fullScreenListUI")
                       /\ UNCHANGED view
                  ELSE /\ view' = SearchResults(ret'.value.results)
                       /\ UNCHANGED overlay
               /\ UNCHANGED proc
            \/ /\ io # "ok"
               /\ fsThrows("searchNotes", <<>>, [query |-> Val(query)])
               /\ uncaught
    /\ UNCHANGED ui

\* the confirmation opened from a result list; the code keeps no trace of
\* where it was opened from, origin is kept for the properties only
ConfirmingDeleteOf(noteId, results) ==
    [name |-> "ConfirmingDelete", noteId |-> noteId, notes |-> results,
     origin |-> "SearchResults"]

\* showSearchResults: screen.key(['d'], ...), the selection being on item index
showSearchResults_d(index) ==
    /\ OnScreen({"index", "part_002"}, "SearchResults")
    /\ index \in 1..Len(view.results)
    /\ view' = ConfirmingDeleteOf(view.results[index].id, view.results)
    /\ event' = Event("showSearchResults.d", None)
    /\ noStoreCall
    /\ UNCHANGED <<ui, overlay, proc>>

FormData == [title : FormTitles, content : FormContents]
ConfirmData == [confirm : ConfirmTexts]
QueryData == [query : FormQueries]

\* a program has been opened on an empty notes directory and shows its
\* list; in index.js openUI's call of showNoteList may have found the
\* directory unreadable, and then returned before binding any key
NavInit ==
    /\ ui \in Programs
    /\ impl = StoreOf(ui)
    /\ dir = <<>>
    /\ now = 0
    /\ ret = NoCall
    /\ \/ /\ view = List(<<>>, TRUE)
          /\ overlay = None
       \/ /\ ui = "index"
          /\ view = List(<<>>, FALSE)
          /\ overlay = showError("Error reading notes: ", IOError, "all = []")
    /\ proc = "running"
    /\ event = Event("open", None)
    /\ screen = NoScreen

NavNext ==
    \/ NavTick /\ UNCHANGED screen
    \/ key_q /\ UNCHANGED screen
    \/ key_n /\ UNCHANGED screen
    \/ key_s /\ UNCHANGED screen
    \/ \E index \in 1..MaxNotes : key_d(index) /\ UNCHANGED screen
    \/ \E index \in 1..MaxNotes : list_select(index) /\ UNCHANGED screen
    \/ key_e /\ UNCHANGED screen
    \/ \E io \in IO : key_escape(io) /\ UNCHANGED screen
    \/ \E io \in IO : message_done(io) /\ UNCHANGED screen
    \/ \E data \in FormData, io \in IO : showCreateNoteForm_submit(data, io) /\ UNCHANGED screen
    \/ \E data \in FormData, io \in IO : showEditNoteForm_submit(data, io) /\ UNCHANGED screen
    \/ \E data \in ConfirmData, io \in IO : confirmDeleteNoteUI_submit(data, io) /\ UNCHANGED screen
    \/ \E data \in QueryData, io \in IO : showSearchPrompt_submit(data, io) /\ UNCHANGED screen
    \/ \E data \in FormData, io \in IO : createNoteUI_submit(data, io) /\ UNCHANGED screen
    \/ \E data \in FormData, io \in IO : editNoteUI_submit(data, io) /\ UNCHANGED screen
    \/ \E value \in PromptValues(ConfirmTexts), io \in IO, io2 \in IO :
          confirmDeleteNote_input(value, io, io2) /\ UNCHANGED screen
    \/ \E data \in ConfirmData, io \in IO, io2 \in IO :
          part_002_confirmDeleteNoteUI_submit(data, io, io2) /\ UNCHANGED screen
    \/ \E value \in PromptValues(ConfirmTexts), io \in IO, io2 \in IO :
          part_002_727_delete_input(value, io, io2) /\ UNCHANGED screen
    \/ \E title \in PromptValues(FormTitles), io \in IO :
          part_002_727_createNoteUI_title(title, io) /\ UNCHANGED screen
    \/ \E content \in PromptValues(FormContents), io \in IO, io2 \in IO :
          part_002_727_createNoteUI_content(content, io, io2) /\ UNCHANGED screen
    \/ \E query \in PromptValues(FormQueries), io \in IO :
          searchNotesUI_input(query, io) /\ UNCHANGED screen
    \/ \E index \in 1..MaxNotes : showSearchResults_d(index) /\ UNCHANGED screen

NavSpec == NavInit /\ [][NavNext]_vars

----------------------------------------------------------------------------
(* The screen of src/index.js 187-916 and its key handlers.  screen.key    *)
(* adds a listener to the screen that nothing removes: every construction  *)
(* of a screen adds its handlers to those of the screens built before, and *)
(* a key runs all the handlers bound to it, in the order they were bound.  *)
(* While a text input reads (inputOnFocus), the screen grabs the keys and  *)
(* hands them to the input alone.  A message box goes away when its time   *)
(* is up; it takes no key.  The selection of a list stays on its first     *)
(* item, and every fs call succeeds.                                       *)

\* at most MaxBound constructors have bound keys on the screen
MaxBound == 8

Forms == {"Creating", "Editing", "ConfirmingDelete", "Searching"}

\* the ids of the notes a list holds in its notes property
Ids(notes) == [i \in 1..Len(notes) |-> notes[i].id]

\* what the constructor of screen v leaves bound on the screen: its name
\* and the notes its handlers close over (showNoteView binds box.key only)
Bound(v) ==
    IF v.name = "List" THEN <<[name |-> "List", ids |-> Ids(v.notes)]>>
    ELSE IF v.name = "SearchResults"
    THEN <<[name |-> "SearchResults", ids |-> Ids(v.results)]>>
    ELSE IF v.name \in Forms THEN <<[name |-> v.name, ids |-> <<>>]>>
    ELSE <<>>

\* openUI: screen.key(['C-c'], ...) after the first showNoteList
openUI_keys == [name |-> "openUI", ids |-> <<>>]

\* the keys a constructor binds
KeysOf(b) ==
    IF b.name = "List" THEN {"q", "n", "s", "d"}
    ELSE IF b.name = "SearchResults" THEN {"d", "q", "escape"}
    ELSE IF b.name = "openUI" THEN {"C-c"}
    ELSE {"escape", "q"}

CommandKeys == {"q", "n", "s", "d", "escape", "e", "C-c"}

\* the programs whose screens are built by showNoteList, showNoteView and
\* the forms: index.js on its own store, part_001 on notes.js
KeyPrograms == {"index", "part_001"}

\* a constructor run inside a handler: it detaches what mainArea shows,
\* builds screen v, binds its keys and focuses its list, box or first input
construct(v, st) ==
    [st EXCEPT !.view = v,
               !.keys = @ \o Bound(v),
               !.grabKeys = (v.name \in Forms),
               !.built = @ + 1]

\* the handler that constructor b bound to key
handle(b, key, st) ==
    IF b.name = "openUI" THEN [st EXCEPT !.proc = "exit 0"]
    ELSE IF b.name = "List" /\ key = "q" THEN [st EXCEPT !.proc = "exit 0"]
    ELSE IF b.name = "List" /\ key = "n" THEN construct(Creating(None), st)
    ELSE IF b.name = "List" /\ key = "s" THEN construct(Searching, st)
    ELSE IF key = "d"
    THEN IF b.ids # <<>>
         THEN construct(ConfirmingDelete(b.ids[1], <<>>), st)
         ELSE st
    ELSE construct(List(getAllNotes(dir), TRUE), st)

\* screen.emit('key ' + name): the listeners bound when the key arrives run
\* one after the other; process.exit ends the run
RECURSIVE dispatch(_, _, _)
dispatch(bs, key, st) ==
    IF bs = <<>> \/ st.proc # "running" THEN st
    ELSE dispatch(Tail(bs), key,
                  IF key \in KeysOf(Head(bs))
                  THEN handle(Head(bs), key, [st EXCEPT !.ran = @ + 1])
                  ELSE st)

\* then the widget focused when the key arrived gets it, unless a screen
\* handler made the screen grab the keys: box.key of showNoteView
focused(key, before, st) ==
    IF st.proc # "running" \/ st.grabKeys \/ before.name # "Viewing" THEN st
    ELSE IF key \in {"escape", "q"}
    THEN construct(List(getAllNotes(dir), TRUE), [st EXCEPT !.ran = @ + 1])
    ELSE IF key = "e"
    THEN construct(Editing(before.note), [st EXCEPT !.ran = @ + 1])
    ELSE st

\* a key arrives while no text input reads
keypress(k) ==
    /\ ui \in KeyPrograms
    /\ proc = "running"
    /\ ~screen.grabKeys
    /\ LET st == focused(k, view,
                    dispatch(screen.keys, k,
                        [view |-> view, keys |-> screen.keys, grabKeys |-> FALSE,
                         proc |-> proc, ran |-> 0, built |-> 0]))
       IN  /\ Len(st.keys) <= MaxBound
           /\ view' = st.view
           /\ screen' = [keys |-> st.keys, grabKeys |-> st.grabKeys]
           /\ proc' = st.proc
           /\ event' = [handler |-> "key", text |-> None, key |-> k,
                        ran |-> st.ran, built |-> st.built]
    /\ noStoreCall
    /\ UNCHANGED <<ui, overlay>>

\* a key arrives while a text input reads: the input takes it as text
textbox_key(k) ==
    /\ ui \in KeyPrograms
    /\ proc = "running"
    /\ screen.grabKeys
    /\ k \in CommandKeys \ {"escape"}
    /\ event' = [handler |-> "textbox.key", text |-> None, key |-> k,
                 ran |-> 0, built |-> 0]
    /\ noStoreCall
    /\ UNCHANGED <<ui, view, overlay, proc, screen>>

\* Tab in a form (keys: true): the focus goes from a text input to a
\* button, or from a button to a text input, which then reads; the search
\* prompt of part_001 is a blessed.prompt, no form
form_tab ==
    /\ ui \in KeyPrograms
    /\ proc = "running"
    /\ view.name \in Forms
    /\ ui = "part_001" => view.name # "Searching"
    /\ screen' = [screen EXCEPT !.grabKeys = ~@]
    /\ event' = Event("tab", None)
    /\ noStoreCall
    /\ UNCHANGED <<ui, view, overlay, proc>>

\* the screen after a handler that is no key handler: a constructor it ran
\* has bound its keys
rebound ==
    /\ screen' = IF view'.name = view.name THEN screen
                 ELSE [keys |-> screen.keys \o Bound(view'),
                       grabKeys |-> view'.name \in Forms]
    /\ Len(screen'.keys) <= MaxBound

\* cancelButton.on('press') of the four forms
cancelButton_press ==
    /\ ui \in KeyPrograms
    /\ proc = "running"
    /\ view.name \in Forms
    /\ ~screen.grabKeys
    /\ view' = List(getAllNotes(dir), TRUE)
    /\ rebound
    /\ event' = Event("cancelButton.press", None)
    /\ noStoreCall
    /\ UNCHANGED <<ui, overlay, proc>>

\* noteList.on('select') and resultsList.on('select'): Enter on the list
\* on display
noteList_select ==
    /\ ui \in KeyPrograms
    /\ proc = "running"
    /\ ~screen.grabKeys
    /\ \/ /\ view.name = "List"
          /\ view.notes # <<>>
          /\ view' = Viewing(view.notes[1])
       \/ /\ view.name = "SearchResults"
          /\ view' = Viewing(view.results[1])
    /\ event' = Event("select", None)
    /\ noStoreCall
    /\ UNCHANGED <<ui, overlay, proc, screen>>

\* submitButton.on('press') -> form.submit() of the form on display
form_submit(handler) ==
    /\ ~screen.grabKeys
    /\ handler
    /\ rebound

\* setTimeout of msg.display: the message box hides and its callback runs,
\* on whatever screen is on display by then
msg_display_timeout ==
    /\ ui \in KeyPrograms
    /\ proc = "running"
    /\ Has(overlay)
    /\ event' = Event("message_done", None)
    /\ noStoreCall
    /\ overlay' = None
    /\ IF Val(overlay).callback = "showNoteList"
       THEN /\ view' = List(getAllNotes(dir), TRUE)
            /\ screen' = [keys |-> screen.keys \o Bound(view'), grabKeys |-> FALSE]
            /\ Len(screen'.keys) <= MaxBound
       ELSE /\ screen' = [screen EXCEPT !.grabKeys = TRUE]
            /\ UNCHANGED view
    /\ UNCHANGED <<ui, proc>>

KeyFormData == [title : {<<>>, <<"a">>}, content : {<<>>}]
KeyConfirmData == [confirm : {YES, <<>>}]
KeyQueryData == [query : {<<"a">>, <<"b">>}]

\* index.js has been opened on an empty notes directory
KeyInit ==
    /\ ui = "index"
    /\ impl = "index"
    /\ dir = <<>>
    /\ now = 0
    /\ ret = NoCall
    /\ view = List(<<>>, TRUE)
    /\ overlay = None
    /\ proc = "running"
    /\ event = Event("open", None)
    /\ screen = [keys |-> Bound(List(<<>>, TRUE)) \o <<openUI_keys>>,
                 grabKeys |-> FALSE]

KeyNext ==
    \/ \E k \in CommandKeys : keypress(k)
    \/ \E k \in CommandKeys : textbox_key(k)
    \/ form_tab
    \/ cancelButton_press
    \/ noteList_select
    \/ msg_display_timeout
    \/ \E data \in KeyFormData : form_submit(showCreateNoteForm_submit(data, "ok"))
    \/ \E data \in KeyFormData : form_submit(showEditNoteForm_submit(data, "ok"))
    \/ \E data \in KeyConfirmData : form_submit(confirmDeleteNoteUI_submit(data, "ok"))
    \/ \E data \in KeyQueryData : form_submit(showSearchPrompt_submit(data, "ok"))

KeySpec == KeyInit /\ [][KeyNext]_vars

-----------------------------------------------------------------------------
(* part_001: the screens of index.js on the store of notes.js *)

\* part_001 showCreateNoteForm: form.on('submit')
part_001_showCreateNoteForm_submit(data, io) ==
    /\ OnScreen({"part_001"}, "Creating")
    /\ event' = Event("showCreateNoteForm.submit", Some(data.title))
    /\ LET title == trim(data.title)
           content == trim(data.content)
       IN  IF ~Truthy(title)
           THEN /\ overlay' = showMessage("Title is required!", "titleInput.focus")
                /\ noStoreCall
           ELSE \/ /\ io = "ok"
                   /\ notes_createNote(title, content)
                   /\ overlay' = showMessage("Note created successfully!",
                                             "showNoteList")
                \/ /\ io # "ok"
                   /\ fsThrows("createNote", <<>>, Args(title, content))
                   /\ overlay' = showError("Error creating note: ", IOError,
                                           "showNoteList")
    /\ UNCHANGED <<ui, view, proc>>

\* part_001 showEditNoteForm: form.on('submit')
part_001_showEditNoteForm_submit(data, io) ==
    /\ OnScreen({"part_001"}, "Editing")
    /\ event' = Event("showEditNoteForm.submit", Some(data.title))
    /\ LET updatedTitle == trim(data.title)
           updatedContent == trim(data.content)
       IN  IF ~Truthy(updatedTitle)
           THEN /\ overlay' = showMessage("Title is required!", "titleInput.focus")
                /\ noStoreCall
           ELSE /\ \/ /\ io = "ok"
                      /\ notes_updateNote(view.note.id,
                                          Updates(updatedTitle, updatedContent))
                   \/ /\ io # "ok"
                      /\ fsThrows("updateNote", view.note.id,
                                  Updates(updatedTitle, updatedContent))
                /\ overlay' =
                     IF ret'.thrown = NoError
                     THEN showMessage("Note updated successfully!", "showNoteList")
                     ELSE showError("Error updating note: ", ret'.thrown,
                                    "showNoteList")
    /\ UNCHANGED <<ui, view, proc>>

\* part_001 confirmDeleteNoteUI: form.on('submit'); notes.deleteNote
\* returns false for a note that has no file, and throws nothing
part_001_confirmDeleteNoteUI_submit(data, io) ==
    /\ OnScreen({"part_001"}, "ConfirmingDelete")
    /\ event' = Event("confirmDeleteNoteUI.submit", Some(data.confirm))
    /\ IF trim(data.confirm) = YES
       THEN /\ \/ /\ io = "ok"
                  /\ notes_deleteNote(view.noteId)
               \/ /\ io # "ok"
                  /\ fsThrows("deleteNote", view.noteId, NoArgs)
            /\ overlay' =
                 IF ret'.thrown = NoError
                 THEN showMessage("Note deleted.", "showNoteList")
                 ELSE showError("Error deleting note: ", ret'.thrown,
                                "showNoteList")
            /\ UNCHANGED view
       ELSE /\ noStoreCall
            /\ showNoteList(io)
    /\ UNCHANGED <<ui, proc>>

\* part_001 showSearchPrompt: the callback of prompt.input, run when the
\* input of the prompt stops reading (Enter, or Escape: query is null)
part_001_showSearchPrompt_input(query, io) ==
    /\ OnScreen({"part_001"}, "Searching")
    /\ screen.grabKeys
    /\ event' = Event("showSearchPrompt.input", query)
    /\ IF Falsy(query)
       THEN /\ noStoreCall
            /\ showNoteList(io)
       ELSE \/ /\ io = "ok"
               /\ notes_callSearchNotes(Val(query))
               /\ IF ret'.value.results = <<>>
                  THEN /\ overlay' = showMessage("No matching notes found.",
                                                 "showNoteList")
                       /\ UNCHANGED view
                  ELSE /\ view' = SearchResults(ret'.value.results)
                       /\ UNCHANGED overlay
            \/ /\ io # "ok"
               /\ fsThrows("searchNotes", <<>>, [query |-> Val(query)])
               /\ overlay' = showError("Error searching notes: ", IOError,
                                       "showNoteList")
               /\ UNCHANGED view
    /\ screen' = [keys |-> IF view'.name = view.name THEN screen.keys
                           ELSE screen.keys \o Bound(view'),
                  grabKeys |-> FALSE]
    /\ Len(screen'.keys) <= MaxBound
    /\ UNCHANGED <<ui, proc>>

\* part_001 has been opened on an empty notes directory
Part001Init ==
    /\ ui = "part_001"
    /\ impl = "notes"
    /\ dir = <<>>
    /\ now = 0
    /\ ret = NoCall
    /\ view = List(<<>>, TRUE)
    /\ overlay = None
    /\ proc = "running"
    /\ event = Event("open", None)
    /\ screen = [keys |-> Bound(List(<<>>, TRUE)) \o <<openUI_keys>>,
                 grabKeys |-> FALSE]

Part001Next ==
    \/ \E k \in CommandKeys : keypress(k)
    \/ \E k \in CommandKeys : textbox_key(k)
    \/ form_tab
    \/ cancelButton_press
    \/ noteList_select
    \/ msg_display_timeout
    \/ \E data \in KeyFormData :
          form_submit(part_001_showCreateNoteForm_submit(data, "ok"))
    \/ \E data \in KeyFormData :
          form_submit(part_001_showEditNoteForm_submit(data, "ok"))
    \/ \E data \in KeyConfirmData :
          form_submit(part_001_confirmDeleteNoteUI_submit(data, "ok"))
    \/ \E query \in PromptValues(KeyQueryData) :
          part_001_showSearchPrompt_input(
              IF Has(query) THEN Some(Val(query).query) ELSE None, "ok")

Part001Spec == Part001Init /\ [][Part001Next]_vars

-----------------------------------------------------------------------------
(* The store called with any updates object *)

\* the objects a caller may hand to notes.updateNote: any of a note's
\* fields, its id among them
AnyUpdates ==
    [id : PromptValues(UuidIds), title : PromptValues({<<"a">>}),
     content : {None}, created_at : {None}]

IdInit == Init

IdNext ==
    \/ \E title \in Titles, content \in Contents :
          createNote(title, content) /\ UNCHANGED navVars
    \/ \E noteId \in IndexIds, title \in Titles, content \in Contents :
          updateNote(noteId, title, content) /\ UNCHANGED navVars
    \/ \E file \in ImportFiles : importNotes(file) /\ UNCHANGED navVars
    \/ \E title \in Titles, content \in Contents :
          notes_createNote(title, content) /\ UNCHANGED navVars
    \/ \E noteId \in UuidIds, updates \in AnyUpdates :
          notes_updateNote(noteId, updates) /\ UNCHANGED navVars

IdSpec == IdInit /\ [][IdNext]_vars

-----------------------------------------------------------------------------
(* `taccuino import <file>` run again on the same file *)

AgainInit ==
    /\ impl = "index"
    /\ now = 0
    /\ ret = NoCall
    /\ \E ns \in ArraysOf(StoredNotes, MaxNotes) :
          /\ \A i, j \in 1..Len(ns) : ns[i].id = ns[j].id => i = j
          /\ dir = StoredDir(ns)
    /\ NoUI

\* the file of the last import is imported once more
importAgain ==
    /\ ret.op = "importNotes"
    /\ runImportNotes(ret.args.file, dir)

AgainNext ==
    \/ Tick /\ UNCHANGED navVars
    \/ callImportNotes /\ UNCHANGED navVars
    \/ importAgain /\ UNCHANGED navVars

AgainSpec == AgainInit /\ [][AgainNext]_vars

-----------------------------------------------------------------------------
(* The widgets attached to the container that the screens are built in:    *)
(* the screen itself in part_002, mainArea in index.js                      *)

\* Array.prototype.forEach over the live children array, from index k on:
\* child.detach() splices the child out, the children after it move down
\* by one, and forEach goes on with the next index
RECURSIVE forEach_detach(_, _)
forEach_detach(children, k) ==
    IF k > Len(children) THEN children
    ELSE forEach_detach(SubSeq(children, 1, k - 1)
                            \o SubSeq(children, k + 1, Len(children)),
                        k + 1)

Widget(of, widget) == [of |-> of, widget |-> widget]

\* the widgets that the constructor of screen v gives the container as
\* their parent
Widgets(u, v) ==
    IF v.name = "List"
    THEN IF u = "part_002"
         THEN <<Widget(v.name, "noteList"), Widget(v.name, "box")>>
         ELSE <<Widget(v.name, "noteList")>>
    ELSE IF v.name = "SearchResults"
    THEN IF u = "part_002"
         THEN <<Widget(v.name, "resultsList"), Widget(v.name, "box")>>
         ELSE <<Widget(v.name, "resultsList")>>
    ELSE IF v.name = "Viewing" THEN <<Widget(v.name, "box")>>
    ELSE IF v.name = "Searching" /\ u = "part_002"
    THEN <<Widget(v.name, "prompt")>>
    ELSE <<Widget(v.name, "form")>>

\* a handler that built another screen: the constructor cleared the
\* container and attached its widgets
attach ==
    screen' = IF view' = view THEN screen
              ELSE [screen EXCEPT
                      !.children = forEach_detach(@, 1) \o Widgets(ui, view')]

WidgetInit ==
    /\ ui \in {"index", "part_002"}
    /\ impl = StoreOf(ui)
    /\ dir = <<>>
    /\ now = 0
    /\ ret = NoCall
    /\ view = List(<<>>, TRUE)
    /\ overlay = None
    /\ proc = "running"
    /\ event = Event("open", None)
    /\ screen = [keys |-> <<>>, grabKeys |-> FALSE,
                 children |-> Widgets(ui, view)]

WidgetNext ==
    \/ NavTick /\ attach
    \/ key_q /\ attach
    \/ key_n /\ attach
    \/ key_s /\ attach
    \/ \E index \in 1..MaxNotes : key_d(index) /\ attach
    \/ \E index \in 1..MaxNotes : list_select(index) /\ attach
    \/ key_e /\ attach
    \/ \E io \in IO : key_escape(io) /\ attach
    \/ \E io \in IO : message_done(io) /\ attach
    \/ \E data \in FormData, io \in IO : showCreateNoteForm_submit(data, io) /\ attach
    \/ \E data \in FormData, io \in IO : showEditNoteForm_submit(data, io) /\ attach
    \/ \E data \in ConfirmData, io \in IO : confirmDeleteNoteUI_submit(data, io) /\ attach
    \/ \E data \in QueryData, io \in IO : showSearchPrompt_submit(data, io) /\ attach
    \/ \E data \in FormData, io \in IO : createNoteUI_submit(data, io) /\ attach
    \/ \E data \in FormData, io \in IO : editNoteUI_submit(data, io) /\ attach
    \/ \E data \in ConfirmData, io \in IO, io2 \in IO :
          part_002_confirmDeleteNoteUI_submit(data, io, io2) /\ attach
    \/ \E query \in PromptValues(FormQueries), io \in IO :
          searchNotesUI_input(query, io) /\ attach
    \/ \E index \in 1..MaxNotes : showSearchResults_d(index) /\ attach

WidgetSpec == WidgetInit /\ [][WidgetNext]_vars

----------------------------------------------------------------------------
(* Properties of the store *)

\* either implementation's create
AnyCreate(title, content) ==
    createNote(title, content) \/ notes_createNote(title, content)

\* either implementation's delete
AnyDelete(noteId) == deleteNote(noteId) \/ notes_deleteNote(noteId)

\* either implementation's listing
AnyGetAll(d) == IF impl = "index" THEN getAllNotes(d) ELSE notes_getAllNotes(d)

\* the title and content the last update was given
UpdateTitle(r) == IF impl = "index" THEN r.args.title ELSE Val(r.args.title)
UpdateContent(r) == IF impl = "index" THEN r.args.content ELSE Val(r.args.content)

\* C1: for every non-blank title and every content, create(title, content)
\* followed by getById of the created id returns a note with exactly that
\* title and content whose created_at equals its updated_at.
C1_CreateThenGetById ==
    (ret.op = "createNote" /\ trim(ret.args.title) # <<>>) =>
        LET n == notes_getNoteById(dir, ret.key)
        IN  /\ n # Null
            /\ n.title = ret.args.title
            /\ n.content = ret.args.content
            /\ n.created_at = n.updated_at

\* C2: for every existing note, update(id, {title2, content2}) replaces
\* title and content, leaves id and created_at unchanged, and yields an
\* updated_at greater than or equal to the previous updated_at.
C2_UpdateReplacesAndPreserves ==
    [][(ret'.op = "updateNote" /\ existsSync(dir, ret'.key)) =>
         /\ ret'.thrown = NoError
         /\ existsSync(dir', ret'.key)
         /\ LET old == readFile(dir, ret'.key)
                new == readFile(dir', ret'.key)
            IN  /\ new.title = UpdateTitle(ret')
                /\ new.content = UpdateContent(ret')
                /\ new.id = old.id
                /\ new.created_at = old.created_at
                /\ new.updated_at >= old.updated_at]_vars

\* C2 witness: an update has just succeeded on a note created at an
\* earlier tick, so its updated_at moved while its created_at stayed
C2_Witness ==
    /\ ret.op = "updateNote"
    /\ ret.thrown = NoError
    /\ existsSync(dir, ret.key)
    /\ readFile(dir, ret.key).updated_at = now
    /\ readFile(dir, ret.key).created_at < now

\* C3: for any existing id, delete(id) followed by getById(id) returns
\* "not found", and a second delete(id) fails with a NotFoundError (an
\* error, not a normal return) and leaves the store unchanged.
C3_DeleteThenNotFound ==
    [][(ret'.op = "deleteNote" /\ AnyDelete(ret'.key)) =>
         /\ notes_getNoteById(dir', ret'.key) = Null
         /\ (ret.op = "deleteNote" /\ ret.key = ret'.key) =>
               (ret'.thrown # NoError /\ dir' = dir)]_vars

\* C4: update(id, ...) on an id with no stored record fails with a
\* NotFoundError, creates no record for that id, and leaves every stored
\* note unchanged.
C4_UpdateMissingFails ==
    [][(ret'.op = "updateNote" /\ ~existsSync(dir, ret'.key)) =>
         /\ ret'.thrown \in {"Note does not exist", "Note not found"}
         /\ ~existsSync(dir', ret'.key)
         /\ dir' = dir]_vars

\* C4 witness: an update has just been refused while notes are stored
C4_Witness ==
    /\ ret.op = "updateNote"
    /\ ret.thrown # NoError
    /\ dir # <<>>

\* C5: after any sequence of create, update, delete and import operations,
\* getAll() returns every stored note exactly once, ordered by created_at
\* descending.
C5_GetAllSortedAndComplete ==
    LET all == AnyGetAll(dir)
    IN  /\ Len(all) = Len(dir)
        /\ \A i \in 1..Len(dir) :
             Cardinality({j \in 1..Len(all) : all[j] = dir[i].note}) = 1
        /\ \A j \in 1..(Len(all) - 1) :
             all[j].created_at >= all[j + 1].created_at

\* C5 witness: after an import the directory lists an older note before a
\* newer one, and the listing puts the newer one first
C5_Witness ==
    /\ ret.op = "importNotes"
    /\ Len(dir) = 2
    /\ dir[1].note.created_at < dir[2].note.created_at
    /\ AnyGetAll(dir)[1] = dir[2].note

\* C6: immediately after create(title, content) in any reachable store
\* state, the newly created note is the first element of getAll().
C6_CreatedNoteIsFirst ==
    ret.op = "createNote" => AnyGetAll(dir)[1].id = ret.key

\* two characters that differ at most in case
SameLetter(c, d) ==
    \/ c = d
    \/ {c, d} \in {{"a", "A"}, {"b", "B"}}

\* q occurs in s at some offset, letter case ignored
OccursIgnoringCase(s, q) ==
    \E off \in 0..(Len(s) - Len(q)) :
        \A k \in 1..Len(q) : SameLetter(s[off + k], q[k])

\* C7: for every query q and every store state, search(q) returns exactly
\* those notes of getAll() whose title or content contains q ignoring case,
\* in the same relative order as getAll() returns them.
C7_SearchIsFilteredGetAll ==
    ret.op = "searchNotes" =>
        ret.value.results =
            SelectSeq(AnyGetAll(dir),
                      LAMBDA n : \/ OccursIgnoringCase(n.title, ret.args.query)
                                 \/ OccursIgnoringCase(n.content, ret.args.query))

\* C7 witness: a search for "b" over two notes returns only the one titled
\* "aB" (a match past the first character, in the other case)
C7_Witness ==
    /\ ret.op = "searchNotes"
    /\ ret.args.query = <<"b">>
    /\ Len(dir) = 2
    /\ Len(ret.value.results) = 1
    /\ ret.value.results[1].title = <<"a", "B">>
    /\ ret.value.results[1].content = <<>>

----------------------------------------------------------------------------
(* Properties of the navigator *)

\* the handlers that receive the text of a delete confirmation
ConfirmHandlers ==
    {"confirmDeleteNoteUI.submit", "confirmDeleteNote.input",
     "fullScreenListUI.d.input"}

\* the handlers that receive the title of a note to create or to change
TitleHandlers ==
    {"showCreateNoteForm.submit", "showEditNoteForm.submit",
     "createNoteUI.submit", "editNoteUI.submit", "createNoteUI.title"}

\* the title a create or update call was given
CallTitle(r) ==
    IF r.op = "updateNote" /\ impl = "notes" THEN Val(r.args.title)
    ELSE r.args.title

\* a store call of the navigator raised an error
StoreFailed(r) ==
    /\ r.op \in {"createNote", "updateNote", "deleteNote", "searchNotes"}
    /\ r.thrown # NoError

\* C8: in the delete confirmation, Store.delete is called if and only if
\* the submitted text, after trimming surrounding whitespace, is exactly
\* 'YES'; for any other input the note is not deleted and the store is
\* unchanged.
C8_DeleteIffTrimmedYES ==
    [][(/\ view.name = "ConfirmingDelete"
        /\ event'.handler \in ConfirmHandlers
        /\ Has(event'.text)) =>
         /\ (trim(Val(event'.text)) = YES) <=>
               (ret'.op = "deleteNote" /\ ret'.key = view.noteId)
         /\ (trim(Val(event'.text)) # YES) => dir' = dir]_vars

\* C9: submitting the Create or Edit form with a blank or whitespace-only
\* title never calls Store.create or Store.update: the store is unchanged,
\* a validation message is shown, and the navigator remains in Creating
\* (respectively Editing).
C9_BlankTitleIsRejected ==
    [][/\ (/\ view.name \in {"Creating", "Editing"}
           /\ event'.handler \in TitleHandlers
           /\ Has(event'.text)
           /\ trim(Val(event'.text)) = <<>>) =>
              /\ ret' = NoCall
              /\ dir' = dir
              /\ overlay' = showMessage("Title is required!", "titleInput.focus")
              /\ view'.name = view.name
       /\ (/\ ret'.op \in {"createNote", "updateNote"}
           /\ ret'.args # NoArgs) =>
              trim(CallTitle(ret')) # <<>>]_vars

\* C10: when a store operation invoked by the navigator fails (create,
\* update, delete or search raising an error), the navigator shows an Error
\* overlay carrying the failure message and, once it is acknowledged, is in
\* List; the failure never terminates the process.
C10_StoreFailureShowsError ==
    [][/\ StoreFailed(ret') =>
              /\ proc' = "running"
              /\ Has(overlay')
              /\ Val(overlay').label = "Error"
              /\ Val(overlay').text[2] = ret'.thrown
       /\ (/\ Has(overlay)
           /\ Val(overlay).label = "Error"
           /\ event'.handler = "message_done") =>
              /\ view'.name = "List"
              /\ proc' = "running"]_vars

\* C11: if getAll fails while the navigator is entering List, then after the
\* Error overlay is acknowledged the navigator is in a working List state:
\* the list screen is displayed and the new, search, delete and quit
\* commands are accepted.
C11_ListWorksAfterReadError ==
    [][(/\ Has(overlay)
        /\ Val(overlay).callback = "all = []"
        /\ event'.handler = "message_done") =>
          /\ view'.name = "List"
          /\ view'.ready
          /\ overlay' = None
          /\ proc' = "running"]_vars

\* the handlers that receive the text of a search query
QueryHandlers == {"showSearchPrompt.submit", "searchNotesUI.input"}

\* the last step completed or cancelled an operation: a cancel or a view's
\* back, an answered delete confirmation, a create or an update that the
\* store carried out, a cancelled prompt, a blank search query
Completed ==
    \/ event.handler = "escape"
    \/ event.handler \in ConfirmHandlers /\ ret.thrown = NoError
    \/ /\ event.handler \in TitleHandlers \cup {"createNoteUI.content"}
       /\ \/ ret.op \in {"createNote", "updateNote"} /\ ret.thrown = NoError
          \/ ~Has(event.text)
    \/ /\ event.handler \in QueryHandlers
       /\ ~Has(event.text) \/ trim(Val(event.text)) = <<>>

\* the list is on display, or a message box is up that leads to it when it
\* goes away (it does so by itself after 2 or 3 seconds)
ListOrOnItsWay ==
    \/ view.name = "List"
    \/ /\ Has(overlay)
       /\ Val(overlay).callback \in {"showNoteList", "fullScreenListUI"}

\* C12: List is the navigator's initial state, and after every completed or
\* cancelled operation (create submit/cancel, edit submit/cancel, delete
\* confirm/cancel, search cancel or blank query, view back) the navigator is
\* eventually in List.
C12_OperationsEndInList ==
    /\ event.handler = "open" => view.name = "List"
    /\ (Completed /\ proc = "running") => ListOrOnItsWay

\* C13: when a delete confirmation entered from SearchResults is answered
\* with anything other than YES (or cancelled), the navigator returns to the
\* state it came from (the same SearchResults, unchanged) rather than to
\* some other screen.
C13_DeclinedDeleteReturnsToResults ==
    [][(/\ view.name = "ConfirmingDelete"
        /\ "origin" \in DOMAIN view
        /\ proc' = "running"
        /\ \/ event'.handler = "escape"
           \/ /\ event'.handler \in ConfirmHandlers
              /\ Has(event'.text)
              /\ trim(Val(event'.text)) # YES) =>
          /\ view' = SearchResults(view.notes)
          /\ overlay' = None
          /\ dir' = dir]_vars

\* C14: a blank search query (empty or whitespace-only) is intercepted by
\* the navigator: Store.search is never called with it and the navigator
\* goes straight to List.
C14_BlankQueryIsNotSearched ==
    /\ ret.op = "searchNotes" => trim(ret.args.query) # <<>>
    /\ (/\ event.handler \in QueryHandlers
        /\ Has(event.text)
        /\ trim(Val(event.text)) = <<>>
        /\ proc = "running") =>
          /\ ret = NoCall
          /\ view.name = "List"

----------------------------------------------------------------------------
(* Properties of export and import *)

\* what identifies a note and its text: id, title, content, created_at
Identity(note) ==
    [id |-> note.id, title |-> note.title, content |-> note.content,
     created_at |-> note.created_at]

NotesOf(d) == {Identity(d[i].note) : i \in 1..Len(d)}

\* C15: for every store state (including notes whose content is empty),
\* exporting all notes to a file and then importing that file into an empty
\* store yields a store with the same set of notes: same ids, titles,
\* contents and created_at values.
C15_ExportImportRoundTrip ==
    [][(ret.op = "exportNotes" /\ ret'.op = "importNotes") =>
          NotesOf(dir') = NotesOf(dir)]_vars

\* the file read by the last import, when it is an array of one element
\* that the forEach body does not skip
ImportedOne ==
    /\ ret.op = "importNotes"
    /\ ret.args.file # Corrupt
    /\ ret.args.file.array
    /\ Len(ret.args.file.elements) = 1
    /\ ret.args.file.elements[1] # Null
    /\ ~Skipped(ret.args.file.elements[1])

\* C16: importing a record whose id already exists replaces the stored
\* note's title and content and refreshes updated_at while preserving the
\* stored note's original created_at (the imported created_at is used only
\* when the original is missing); importing a record with an unknown id
\* creates a new note under the given id.
C16_ImportKeepsCreatedAt ==
    ImportedOne =>
        LET e    == ret.args.file.elements[1]
            key  == Val(e.id)
            into == ret.args.into
        IN  /\ existsSync(dir, key)
            /\ readFile(dir, key).id = key
            /\ readFile(dir, key).title = Val(e.title)
            /\ readFile(dir, key).content = Val(e.content)
            /\ existsSync(into, key) =>
                  /\ readFile(dir, key).updated_at = now
                  /\ readFile(dir, key).created_at = readFile(into, key).created_at

\* C17: bulk import of an array never aborts because of an individually
\* invalid element: every valid record is created or updated regardless of
\* invalid elements before or after it, every invalid one is skipped, and
\* the reported counts satisfy created + updated + skipped = number of
\* elements.
C17_ImportSkipsInvalidElements ==
    (ret.op = "importNotes" /\ ret.args.file # Corrupt /\ ret.args.file.array) =>
        LET elements == ret.args.file.elements
        IN  /\ \A i \in 1..Len(elements) :
                  (elements[i] # Null /\ ~Skipped(elements[i])) =>
                      existsSync(dir, Val(elements[i].id))
            /\ "created" \in DOMAIN ret.value
            /\ ret.value.created + ret.value.updated + ret.value.warned
                  = Len(elements)

\* C18: created_at <= updated_at holds for every stored note in every
\* reachable store state, after any sequence of create, update and import
\* operations (including imports of records carrying their own created_at).
C18_CreatedNotAfterUpdated ==
    \A i \in 1..Len(dir) : dir[i].note.created_at <= dir[i].note.updated_at

\* C19: every successful create generates an id different from the id of
\* every live note, even for several creates within the same clock tick:
\* create adds exactly one record and never overwrites or alters an
\* existing one.
C19_CreateNeverOverwrites ==
    [][(\E title \in Titles \cup {<<>>}, content \in Contents : AnyCreate(title, content)) =>
          /\ ~existsSync(dir, ret'.key)
          /\ Len(dir') = Len(dir) + 1
          /\ \A i \in 1..Len(dir) :
                /\ existsSync(dir', dir[i].key)
                /\ readFile(dir', dir[i].key) = dir[i].note]_vars

----------------------------------------------------------------------------
(* Properties of listing *)

\* C20: if one record file in the notes directory fails to parse, getAll
\* does not fail as a whole: the corrupt file is reported as a corrupt-data
\* error for that file and the remaining parseable notes are still listed.
C20_CorruptFileDoesNotFailListing ==
    ret.op = "getAllNotes" =>
        /\ "notes" \in DOMAIN ret.value
        /\ {ret.value.notes[i] : i \in 1..Len(ret.value.notes)}
              = {dir[i].note : i \in {j \in 1..Len(dir) :
                                        /\ endsWith_json(dir[j])
                                        /\ dir[j].note # Corrupt}}

\* the record files of a directory: .json files holding a note object
NoteRecords(d) ==
    {d[i].note : i \in {j \in 1..Len(d) :
                            endsWith_json(d[j]) /\ "id" \in DOMAIN d[j].note}}

\* C21: files in the notes directory that are not note records (including
\* a .json file that does not hold a note object, such as an export array
\* written into the directory) are ignored by getAll and by the List screen:
\* they never appear as notes and never make the listing fail.
C21_NonNoteFilesAreIgnored ==
    (ret.op \in {"getAllNotes", "showNoteList"} /\ parses(dir)) =>
        /\ ret.thrown = NoError
        /\ "notes" \in DOMAIN ret.value
        /\ {ret.value.notes[i] : i \in 1..Len(ret.value.notes)} = NoteRecords(dir)

----------------------------------------------------------------------------
(* Properties of writes *)

\* C22: a write is whole-record: if the process crashes at any point during
\* create or update (write modelled as truncate followed by store of the
\* new bytes), reading an existing note's file yields either the complete
\* old record or the complete new record, never an empty or partial one.
C22_WriteIsWholeRecord ==
    proc = "killed" =>
        \A i \in 1..Len(dir) :
            IF Pending /\ dir[i].key = ret.key
            THEN Has(ret.value.old) =>
                    dir[i].note \in {Val(ret.value.old), ret.value.writing}
            ELSE dir[i].note # Corrupt

----------------------------------------------------------------------------
(* Properties of the screen and its key handlers *)

\* the last step was key k arriving while no text input read
Pressed(k) == event'.handler = "key" /\ event'.key = k

\* C23: whenever the Navigator enters List (initially and after every
\* mutation), the notes it displays and acts on are exactly getAll() of the
\* store at that moment; no command in List operates on a note copy older
\* than the last mutation.
C23_ListActsOnCurrentNotes ==
    [][/\ view'.name = "List" => view'.notes = getAllNotes(dir')
       /\ (view.name = "List" /\ Pressed("d")) =>
             view' = IF getAllNotes(dir) = <<>> THEN view
                     ELSE ConfirmingDelete(getAllNotes(dir)[1].id, <<>>)]_vars

\* the message box that leads back to the list when it goes away
ToList(o) == Has(o) /\ Val(o).callback \in {"showNoteList", "fullScreenListUI"}

\* C24: submitting a non-blank search query leads to SearchResults showing
\* exactly search(query) when that result is non-empty, and to a Message
\* overlay followed by List when it is empty.
C24_SearchLeadsToResultsOrMessage ==
    [][/\ (/\ event'.handler \in QueryHandlers
           /\ ret'.op = "searchNotes"
           /\ ret'.thrown = NoError
           /\ trim(ret'.args.query) # <<>>) =>
             LET found == IF impl = "index"
                          THEN searchNotes(dir, ret'.args.query)
                          ELSE notes_searchNotes(dir, ret'.args.query)
             IN  IF found # <<>>
                 THEN /\ view'.name = "SearchResults"
                      /\ view'.results = found
                      /\ overlay' = None
                 ELSE /\ ToList(overlay')
                      /\ Val(overlay').label = "Info"
                      /\ view' = view
       /\ (/\ ToList(overlay)
           /\ event'.handler = "message_done"
           /\ proc' = "running") =>
             view'.name = "List"]_vars

\* a search with results has just led to the results screen
C24_Witness ==
    /\ event.handler \in QueryHandlers
    /\ ret.op = "searchNotes"
    /\ ret.thrown = NoError
    /\ view.name = "SearchResults"
    /\ Len(view.results) = 2

\* the last import read a file that holds no JSON text, or JSON text that
\* is no array
NoArrayImported ==
    /\ ret.op = "importNotes"
    /\ ret.args.file = Corrupt \/ ~ret.args.file.array

C26_PersistedTitlesAreNotBlank ==
    \A i \in 1..Len(dir) : trim(dir[i].note.title) # <<>>

\* the key k arrived, at the screen or at the text input that reads the keys
Typed(k) == event'.handler \in {"key", "textbox.key"} /\ event'.key = k

\* C27: from every state of the Navigator (List, Viewing, Creating,
\* Editing, Searching, SearchResults, ConfirmingDelete, message or error
\* shown) the quit command, q or Ctrl-C, ends the process with exit code 0.
C27_QuitEndsTheProcess ==
    [][(proc = "running" /\ (Typed("q") \/ Typed("C-c"))) => proc' = "exit 0"]_vars

\* C28: in Viewing the back command, Escape or q, always leads to List and
\* does not end the process, whatever number of lists was shown before.
C28_BackFromViewingShowsList ==
    [][(view.name = "Viewing" /\ (Pressed("escape") \/ Pressed("q"))) =>
          (view'.name = "List" /\ proc' = "running")]_vars

\* C29: n, s and d act only in List (new, search, delete) and in
\* SearchResults (delete): in Viewing, Creating, Editing and
\* ConfirmingDelete, when no text input reads the keys, pressing n, s or d
\* changes neither the screen shown nor the store, whatever screens were
\* shown before.
C29_ListKeysOnlyActInList ==
    [][(/\ view.name \in {"Viewing", "Creating", "Editing", "ConfirmingDelete"}
        /\ Pressed("n") \/ Pressed("s") \/ Pressed("d")) =>
          (view' = view /\ dir' = dir)]_vars

\* C30: the number of key handlers bound on the screen stays bounded over
\* any sequence of screens: after any number of round trips List ->
\* Create -> cancel -> List one press of a command key runs at most one
\* handler, hence builds at most one screen with one getAllNotes call.
C30_OneHandlerPerKey ==
    event.handler = "key" => (event.ran <= 1 /\ event.built <= 1)

\* C34: in every reachable state of the store the id field of each record
\* equals the key (the file name without extension) it is stored under;
\* hence no operation (create, update with any updates object, import)
\* changes the id of a stored record.
C34_IdIsTheStorageKey ==
    \A i \in 1..Len(dir) : dir[i].note.id = dir[i].key

\* the files of d stored under another key than key
OtherFiles(d, key) == {d[i] : i \in {j \in 1..Len(d) : d[j].key # key}}

\* C35: update(id, ...) and delete(id) affect only the record of that id:
\* every other stored note is left as it was (id, title, content,
\* created_at, updated_at), and the set of stored ids changes only by the
\* removal of id by a delete.
C35_OtherNotesAreUntouched ==
    [][ret'.op \in {"updateNote", "deleteNote"} =>
          /\ OtherFiles(dir', ret'.key) = OtherFiles(dir, ret'.key)
          /\ Keys(dir') = IF ret'.op = "deleteNote"
                          THEN Keys(dir) \ {ret'.key}
                          ELSE Keys(dir)]_vars

\* a note was deleted, or written by an update, next to another note
C35_Witness ==
    /\ ret.op \in {"updateNote", "deleteNote"}
    /\ ret.thrown = NoError
    /\ ret.value # Bool(FALSE)
    /\ OtherFiles(dir, ret.key) # {}

\* what C36 compares of a store: id, title, content and created_at of
\* every stored note
ImportedIdentity(d) ==
    {[key |-> d[i].key, id |-> d[i].note.id, title |-> d[i].note.title,
      content |-> d[i].note.content, created_at |-> d[i].note.created_at]
        : i \in 1..Len(d)}

\* the step imports the file of the last import again
ImportedAgain ==
    /\ ret.op = "importNotes"
    /\ ret'.op = "importNotes"
    /\ now' = now
    /\ ret'.args = [file |-> ret.args.file, into |-> dir]

\* C36: import is idempotent on identity and content: importing a file a
\* second time leaves the ids, titles, contents and created_at values that
\* the first import left, and the second run counts every valid record as
\* updated and none as created.
C36_ImportTwiceIsImportOnce ==
    [][ImportedAgain =>
          /\ ImportedIdentity(dir') = ImportedIdentity(dir)
          /\ "created" \in DOMAIN ret.value => "created" \in DOMAIN ret'.value
          /\ "created" \in DOMAIN ret'.value =>
                /\ ret'.value.created = 0
                /\ ret'.value.updated =
                      Len(ret.args.file.elements) - ret'.value.warned]_vars

\* a file of MaxImported valid records was imported again: the store is
\* as the run found it and every record was counted as updated
C36_Witness ==
    /\ ret.op = "importNotes"
    /\ ret.args.into = dir
    /\ "updated" \in DOMAIN ret.value
    /\ ret.value.updated = MaxImported

\* the step shows the message 'Note deleted.'
ShowsNoteDeleted ==
    /\ Has(overlay')
    /\ Val(overlay').text = <<"Note deleted.">>
    /\ event'.handler = "confirmDeleteNoteUI.submit"

\* C33: 'Note deleted.' is shown only when a record was removed; a
\* confirmed delete of a note whose record no longer exists is shown as an
\* error.
C33_NoteDeletedMeansRemoved ==
    [][/\ ShowsNoteDeleted => Len(dir') < Len(dir)
       /\ (/\ event'.handler = "confirmDeleteNoteUI.submit"
           /\ ret'.op = "deleteNote"
           /\ ~existsSync(dir, ret'.key)) =>
             (Has(overlay') /\ Val(overlay').label = "Error")]_vars

\* the id of the note selected in the list that view v displays, if v is a
\* list that holds notes (the selection is on its first item)
Selected(v) ==
    IF v.name = "List" /\ v.notes # <<>> THEN Some(v.notes[1].id)
    ELSE IF v.name = "SearchResults" /\ v.results # <<>>
    THEN Some(v.results[1].id)
    ELSE None

\* C31: the only note the Navigator ever deletes is the note that was
\* selected in the list on display (List or SearchResults) when the
\* delete command was issued and whose confirmation was answered YES: d
\* opens the confirmation for that note only, a handler bound by an
\* earlier list opens none for another note, and the confirmation deletes
\* the note it was opened for, on YES only.
C31_OnlyTheSelectedNoteIsDeleted ==
    [][/\ (Pressed("d") /\ view'.name = "ConfirmingDelete") =>
             Selected(view) = Some(view'.noteId)
       /\ Keys(dir') # Keys(dir) /\ Keys(dir') \subseteq Keys(dir) =>
             /\ view.name = "ConfirmingDelete"
             /\ event'.handler = "confirmDeleteNoteUI.submit"
             /\ trim(Val(event'.text)) = YES
             /\ Keys(dir') = Keys(dir) \ {view.noteId}]_vars

\* C32: after every screen transition the widgets attached to the
\* container are exactly those of the screen on display: clearing the
\* container with children.forEach(child => child.detach()) removes every
\* widget of the screen before, also when that screen had two or more.
C32_ContainerHoldsCurrentScreen ==
    (proc = "running" /\ "children" \in DOMAIN screen) =>
        screen.children = Widgets(ui, view)

====
